---- MODULE Spec2Model ----
(***************************************************************************)
(* A model of creative_automation_cli: the legal and brand compliance      *)
(* evaluators (pure functions) and the run_pipeline orchestration.         *)
(*                                                                         *)
(* Python strings are modelled as sequences of one-character strings, so   *)
(* that lower(), replace(), strip(), substring tests and the formatting of *)
(* keys and paths are computed character by character.                     *)
(***************************************************************************)
EXTENDS Integers, Sequences, FiniteSets, TLC

VARIABLES
    legal_call,     \* arguments of the evaluate_legal_text call under test
    legal_result,   \* its LegalCheckResult, NoResult before the call
    brand_call,     \* arguments of the evaluate_brand_compliance call under test
    brand_result,   \* its BrandCheckResult / the ValueError, NoResult before
    fn_call,        \* name and arguments of the call under test, for the other functions
                    \* checked on their own (SpecResolver, ...)
    fn_result,      \* what that call returned, NoResult before the call
    generated,      \* GeneratedImageStore on its own: the files under generated_root
    s3,             \* whether the store has a mirror (self._s3 is not None)
    bucket,         \* the objects of the mirror's bucket
    now,            \* the UTC clock, in seconds
    history,        \* the saves made so far, oldest first
    scenario,       \* the inputs of the run: which brief, configuration, policies and
                    \* asset files it was started with (see "Inputs of run_pipeline")
    resolved_assets,   \* run_pipeline's list of ResolvedProductAssets
    locales_to_render, \* run_pipeline's resolved output locales
    store,          \* images in {storage_root}/generated, oldest first: [product_id, image_id]
    saves,          \* number of save_new calls of this run
    files,          \* files written under output_root by this run (paths)
    provider_calls, \* number of provider.generate_base_hero calls
    pc,             \* position of the run
    i,              \* index of the product being processed (resolved_assets)
    r,              \* index into TARGET_VARIANTS of the current ratio
    l,              \* index into locales_to_render of the current locale
    base_source,    \* local of _process_product
    entry,          \* ProductManifestEntry being built
    counters,       \* locals of _process_product: the nine _ProductResult counters
    manifest,       \* CampaignManifest.products and the two summaries
    metrics,        \* RunMetrics
    totals,         \* run_pipeline's compliance_* / legal_* accumulators
    exception       \* the exception that ended the run, NoException otherwise

legal_vars == <<legal_call, legal_result>>
brand_vars == <<brand_call, brand_result>>
input_vars == <<scenario>>
fn_vars    == <<fn_call, fn_result>>
store_vars == <<generated, s3, bucket, now, history>>
run_vars   == <<resolved_assets, locales_to_render, store, saves, files, provider_calls, pc, i, r, l, base_source,
                entry, counters, manifest, metrics, totals, exception>>
vars == <<legal_vars, brand_vars, fn_vars, store_vars, input_vars, run_vars>>

-----------------------------------------------------------------------------
(* Bounds of the model *)

MaxTextLen == 3        \* longest text given to evaluate_legal_text
MaxProducts == 2       \* most products in a brief (the brief model requires >= 2)
MaxPromptLen == 2      \* longest prompt given to evaluate_brand_compliance

-----------------------------------------------------------------------------
(* Strings *)

Lowers == <<"a","b","c","d","e","f","g","h","i","j","k","l","m",
            "n","o","p","q","r","s","t","u","v","w","x","y","z">>
Uppers == <<"A","B","C","D","E","F","G","H","I","J","K","L","M",
            "N","O","P","Q","R","S","T","U","V","W","X","Y","Z">>

IsLower(c) == \E k \in 1..Len(Lowers) : Lowers[k] = c
IsUpper(c) == \E k \in 1..Len(Uppers) : Uppers[k] = c
IsSpace(c) == c \in {" ", "\t", "\n"}

\* str.lower()
LowerChar(c) == IF IsUpper(c) THEN Lowers[CHOOSE k \in 1..Len(Uppers) : Uppers[k] = c] ELSE c
Lower(s) == [k \in 1..Len(s) |-> LowerChar(s[k])]

\* needle in hay
Contains(hay, needle) ==
    \E k \in 0..(Len(hay) - Len(needle)) : SubSeq(hay, k + 1, k + Len(needle)) = needle

\* str.replace(a, b) for one-character a and b
ReplaceChar(s, a, b) == [k \in 1..Len(s) |-> IF s[k] = a THEN b ELSE s[k]]

\* str.strip()
Strip(s) ==
    LET kept == {k \in 1..Len(s) : ~IsSpace(s[k])}
    IN  IF kept = {} THEN <<>>
        ELSE SubSeq(s, CHOOSE k \in kept : \A j \in kept : k <= j,
                       CHOOSE k \in kept : \A j \in kept : j <= k)

\* the sequence without the positions marked for removal
Dropped == "DROP"
Keep(c) == c # Dropped
Compact(s) == SelectSeq(s, Keep)

\* sep.join(parts)
RECURSIVE Join(_, _)
Join(sep, parts) ==
    IF parts = <<>> THEN <<>>
    ELSE IF Len(parts) = 1 THEN parts[1]
    ELSE parts[1] \o sep \o Join(sep, Tail(parts))

\* all sequences over S of length at most n
SeqsUpTo(S, n) == UNION {[1..k -> S] : k \in 0..n}

\* the elements of a sequence
Range(s) == {s[k] : k \in 1..Len(s)}

NoResult == [returned |-> FALSE]
NoPolicy == [present |-> FALSE]
NoValue  == [set |-> FALSE]          \* Python None for an optional field
Some(v)  == [set |-> TRUE, value |-> v]

-----------------------------------------------------------------------------
(* compliance/legal.py *)

\* re.sub(r"([a-z])([A-Z])", r"\1 \2", text): a match is a lower-case letter
\* followed by an upper-case one, so two matches never overlap, and a space
\* is inserted after every lower-case letter that an upper-case one follows.
SeparateCamel(s) ==
    Compact([k \in 1..(2 * Len(s)) |->
                IF k % 2 = 1 THEN s[(k + 1) \div 2]
                ELSE IF k \div 2 < Len(s) /\ IsLower(s[k \div 2]) /\ IsUpper(s[(k \div 2) + 1])
                     THEN " " ELSE Dropped])

\* re.sub(r"\s+", " ", text): the first character of every run of white space
\* becomes a space, the rest of the run is removed
CollapseSpace(s) ==
    Compact([k \in 1..Len(s) |->
                IF ~IsSpace(s[k]) THEN s[k]
                ELSE IF k > 1 /\ IsSpace(s[k - 1]) THEN Dropped ELSE " "])

normalize_for_matching(text) == Strip(CollapseSpace(SeparateCamel(text)))

\* dict.get(key): the override stored under key, or None
OverrideGet(policy, key) ==
    IF key \in DOMAIN policy.locale_overrides THEN Some(policy.locale_overrides[key]) ELSE NoValue

\* a slip that looks the whole normalized locale up again instead of its primary subtag
BeforeUnderscore_Whole(s) == s

\* normalized.split("_", 1)[0]
RECURSIVE BeforeUnderscore(_)
BeforeUnderscore(s) ==
    IF s = <<>> \/ s[1] = "_" THEN <<>> ELSE <<s[1]>> \o BeforeUnderscore(Tail(s))

checks_for_locale(policy, locale) ==
    LET normalized == ReplaceChar(Lower(locale), "-", "_")
        exact == OverrideGet(policy, normalized)
        override == IF ~exact.set /\ Contains(normalized, <<"_">>)
                    THEN OverrideGet(policy, BeforeUnderscore(normalized))
                    ELSE exact
    IN  IF override.set
        THEN [blocked_keywords |-> policy.checks.blocked_keywords \o override.value.blocked_keywords,
              blocked_regex    |-> policy.checks.blocked_regex \o override.value.blocked_regex]
        ELSE [blocked_keywords |-> policy.checks.blocked_keywords,
              blocked_regex    |-> policy.checks.blocked_regex]

\* list(policy.checks.blocked_keywords), list(policy.checks.blocked_regex): the
\* lists that extend() grows are new lists, not the policy's own
ExtendsCopies == TRUE

\* the policy object the caller holds, once _checks_for_locale has run
policy_after_checks(policy, locale) ==
    IF ExtendsCopies THEN policy ELSE [policy EXCEPT !.checks = checks_for_locale(policy, locale)]

\* A blocked_regex pattern is modelled as [valid, text]: a valid pattern is a
\* literal (re.search with IGNORECASE is then a case-insensitive substring
\* search), an invalid one makes re.search raise re.error.
RegexSearch(pattern, text) == Contains(Lower(text), Lower(pattern.text))

KeywordMatches(keyword, lowered) == Contains(lowered, Lower(keyword))

RECURSIVE KeywordHits(_, _)
KeywordHits(keywords, lowered) ==
    IF keywords = <<>> THEN <<>>
    ELSE (IF KeywordMatches(keywords[1], lowered)
          THEN << <<"k","e","y","w","o","r","d",":">> \o keywords[1] >> ELSE <<>>)
         \o KeywordHits(Tail(keywords), lowered)

\* a slip that lets an invalid pattern end the loop over the patterns
RECURSIVE RegexHits_StopAtError(_, _)
RegexHits_StopAtError(patterns, text) ==
    IF patterns = <<>> THEN <<>>
    ELSE IF ~patterns[1].valid
    THEN << <<"r","e","g","e","x","_","e","r","r","o","r",":">> \o patterns[1].text >>
    ELSE (IF RegexSearch(patterns[1], text)
          THEN << <<"r","e","g","e","x",":">> \o patterns[1].text >>
          ELSE <<>>)
         \o RegexHits_StopAtError(Tail(patterns), text)

RECURSIVE RegexHits(_, _)
RegexHits(patterns, text) ==
    IF patterns = <<>> THEN <<>>
    ELSE (IF ~patterns[1].valid
          THEN << <<"r","e","g","e","x","_","e","r","r","o","r",":">> \o patterns[1].text >>
          ELSE IF RegexSearch(patterns[1], text)
          THEN << <<"r","e","g","e","x",":">> \o patterns[1].text >>
          ELSE <<>>)
         \o RegexHits(Tail(patterns), text)

LegalMatchedPrefix ==
    <<"L","e","g","a","l"," ","c","o","n","t","e","n","t"," ","m","a","t","c","h","e","d"," ",
      "b","l","o","c","k","e","d"," ","r","u","l","e","s",":"," ">>

\* a slip that forgets the policy's default action
ShouldBlock_StrictOnly(flagged, strict_legal, action) == flagged /\ strict_legal

\* should_block = flagged and (strict_legal or action == "block")
ShouldBlock(flagged, strict_legal, action) == flagged /\ (strict_legal \/ action = "block")

evaluate_legal_text(text, locale, policy, strict_legal) ==
    LET checks == checks_for_locale(policy, locale)
        normalized_text == normalize_for_matching(text)
        lowered == Lower(normalized_text)
        hits == KeywordHits(checks.blocked_keywords, lowered)
                \o RegexHits(checks.blocked_regex, normalized_text)
        flagged == Len(hits) > 0
        action == policy.default_action
        should_block == ShouldBlock(flagged, strict_legal, action)
    IN  [returned     |-> TRUE,
         passed       |-> ~should_block,
         action       |-> action,
         flagged      |-> flagged,
         should_block |-> should_block,
         hits         |-> hits,
         warnings     |-> <<>>,
         violations   |-> IF flagged
                          THEN <<LegalMatchedPrefix \o Join(<<";", " ">>, hits)>>
                          ELSE <<>>]

-----------------------------------------------------------------------------
(* compliance/brand.py *)

\* keys of BrandCheckResult.checks
K_logo_present ==
    <<"l","o","g","o","_","p","r","e","s","e","n","t">>
K_logo_expected_filename ==
    <<"l","o","g","o","_","e","x","p","e","c","t","e","d","_","f","i","l","e","n","a","m","e">>
K_color_ ==
    <<"c","o","l","o","r","_">>
K_palette_compliant ==
    <<"p","a","l","e","t","t","e","_","c","o","m","p","l","i","a","n","t">>
K_imagery_required_ ==
    <<"i","m","a","g","e","r","y","_","r","e","q","u","i","r","e","d","_">>
K_imagery_required_keywords ==
    <<"i","m","a","g","e","r","y","_","r","e","q","u","i","r","e","d","_","k","e","y","w","o",
      "r","d","s">>
K_imagery_avoid_ ==
    <<"i","m","a","g","e","r","y","_","a","v","o","i","d","_">>

\* dict[key] = value
DictSet(d, k, v) == [x \in DOMAIN d \cup {k} |-> IF x = k THEN v ELSE d[x]]
EmptyDict == [x \in {} |-> TRUE]

\* str.lstrip("#")
RECURSIVE LStripHash(_)
LStripHash(s) == IF s # <<>> /\ Head(s) = "#" THEN LStripHash(Tail(s)) ELSE s

IsHexDigit(c) ==
    c \in {"0","1","2","3","4","5","6","7","8","9"} \cup {Lowers[k] : k \in 1..6} \cup {Uppers[k] : k \in 1..6}

\* _hex_to_rgb: the six hex digits of the colour (the RGB triple they denote),
\* or NoValue where the function raises ValueError.
hex_to_rgb(hex_color) ==
    LET value == LStripHash(Strip(hex_color))
    IN  IF Len(value) # 6 \/ \E k \in 1..Len(value) : ~IsHexDigit(value[k])
        THEN NoValue
        ELSE Some(Lower(value))

\* Path.name: a path is a sequence of components
PathName(path) == path[Len(path)]

\* logo_path is not None and logo_path.exists()
HasLogo(logo_path, fs) == logo_path.set /\ logo_path.value \in fs

\* a slip that compares the file name without lower-casing
MatchesExpected_CaseSensitive(name, expected_filenames) ==
    name \in {expected_filenames[k] : k \in 1..Len(expected_filenames)}

\* actual_name in expected_names
MatchesExpected(name, expected_filenames) ==
    Lower(name) \in {Lower(expected_filenames[k]) : k \in 1..Len(expected_filenames)}

\* keyword.lower() in prompt_lower
KeywordPresent(keyword, prompt_lower) == Contains(prompt_lower, Lower(keyword))

\* the logo block of evaluate_brand_compliance: [checks, violations]
LogoChecks(policy, logo_path, fs) ==
    LET has_logo == HasLogo(logo_path, fs)
        present == DictSet(EmptyDict, K_logo_present, has_logo)
    IN  IF policy.logo.required
        THEN IF ~has_logo
             THEN [checks |-> present, violations |-> <<[kind |-> "logo_missing", subject |-> <<>>]>>]
             ELSE IF policy.logo.expected_filenames # <<>>
             THEN LET ok == MatchesExpected(PathName(logo_path.value), policy.logo.expected_filenames)
                  IN  [checks |-> DictSet(present, K_logo_expected_filename, ok),
                       violations |-> IF ok THEN <<>>
                                      ELSE <<[kind |-> "logo_filename",
                                              subject |-> PathName(logo_path.value)]>>]
             ELSE [checks |-> present, violations |-> <<>>]
        ELSE [checks |-> present, violations |-> <<>>]

\* the palette loop: cov maps an RGB triple to the coverage (per mille) that
\* _palette_coverage measures on the final image
RECURSIVE PaletteChecks(_, _, _, _)
PaletteChecks(palette, cov, min_coverage, acc) ==
    IF palette = <<>> THEN acc
    ELSE LET hex_color == palette[1]
             color_ok == cov[hex_to_rgb(hex_color).value] >= min_coverage
         IN  PaletteChecks(Tail(palette), cov, min_coverage,
                 [checks |-> DictSet(acc.checks, K_color_ \o Lower(hex_color), color_ok),
                  ok |-> acc.ok /\ color_ok,
                  warnings |-> IF color_ok THEN acc.warnings
                               ELSE Append(acc.warnings, [kind |-> "palette", subject |-> hex_color])])

RECURSIVE RequiredChecks(_, _, _)
RequiredChecks(keywords, prompt_lower, acc) ==
    IF keywords = <<>> THEN acc
    ELSE LET present == KeywordPresent(keywords[1], prompt_lower)
         IN  RequiredChecks(Tail(keywords), prompt_lower,
                 [checks |-> DictSet(acc.checks, K_imagery_required_ \o keywords[1], present),
                  ok |-> acc.ok /\ present,
                  warnings |-> IF present THEN acc.warnings
                               ELSE Append(acc.warnings, [kind |-> "imagery_required", subject |-> keywords[1]])])

RECURSIVE AvoidChecks(_, _, _)
AvoidChecks(keywords, prompt_lower, acc) ==
    IF keywords = <<>> THEN acc
    ELSE LET present == KeywordPresent(keywords[1], prompt_lower)
         IN  AvoidChecks(Tail(keywords), prompt_lower,
                 [checks |-> DictSet(acc.checks, K_imagery_avoid_ \o keywords[1], ~present),
                  violations |-> IF present
                                 THEN Append(acc.violations, [kind |-> "imagery_avoid", subject |-> keywords[1]])
                                 ELSE acc.violations])

BrandPassed(violations) == Len(violations) = 0

\* checks["palette_compliant"] = palette_ok, checks["imagery_required_keywords"] = required_ok:
\* the summary entry a block adds when its list is not empty
WithSummary(acc, key, listed) ==
    IF listed THEN [acc EXCEPT !.checks = DictSet(acc.checks, key, acc.ok)] ELSE acc

\* the palette block, after the logo block
PaletteBlock(cov, policy, logo) ==
    WithSummary(PaletteChecks(policy.colors.required_palette, cov, policy.colors.min_coverage,
                              [checks |-> logo.checks, ok |-> TRUE, warnings |-> <<>>]),
                K_palette_compliant, policy.colors.required_palette # <<>>)

\* the required-keywords block, after the palette block
RequiredBlock(policy, prompt_lower, pal) ==
    WithSummary(RequiredChecks(policy.imagery.required_keywords, prompt_lower,
                               [checks |-> pal.checks, ok |-> TRUE, warnings |-> pal.warnings]),
                K_imagery_required_keywords, policy.imagery.required_keywords # <<>>)

\* the avoid-keywords block, after the required-keywords block
AvoidBlock(policy, prompt_lower, logo, req) ==
    AvoidChecks(policy.imagery.avoid_keywords, prompt_lower,
                [checks |-> req.checks, violations |-> logo.violations])

\* return BrandCheckResult(passed=len(violations) == 0, checks=..., warnings=..., violations=...)
BrandCheckResult(req, avoid) ==
    [returned   |-> TRUE,
     passed     |-> BrandPassed(avoid.violations),
     checks     |-> avoid.checks,
     warnings   |-> req.warnings,
     violations |-> avoid.violations]

BrandAfterRequired(policy, prompt_lower, logo, req) ==
    BrandCheckResult(req, AvoidBlock(policy, prompt_lower, logo, req))

BrandAfterLogo(cov, policy, prompt_lower, logo) ==
    BrandAfterRequired(policy, prompt_lower, logo,
                       RequiredBlock(policy, prompt_lower, PaletteBlock(cov, policy, logo)))

\* evaluate_brand_compliance; a palette colour that is not six hex digits makes
\* _hex_to_rgb raise ValueError out of the function
evaluate_brand_compliance(cov, policy, logo_path, fs, prompt_text) ==
    IF \E k \in 1..Len(policy.colors.required_palette) : ~hex_to_rgb(policy.colors.required_palette[k]).set
    THEN [returned |-> FALSE, raised |-> "ValueError"]
    ELSE BrandAfterLogo(cov, policy, Lower(prompt_text), LogoChecks(policy, logo_path, fs))

-----------------------------------------------------------------------------
(* String constants used by the inputs *)

S_en ==
    <<"e","n">>
S_es ==
    <<"e","s">>
S_es_dash_MX ==
    <<"e","s","-","M","X">>
S_es_mx ==
    <<"e","s","_","m","x">>
S_fr ==
    <<"f","r">>
S_pt_dash_BR ==
    <<"p","t","-","B","R">>
S_EN_dash_us ==
    <<"E","N","-","u","s">>
S_ES_upper ==
    <<" ","E","S">>

-----------------------------------------------------------------------------
(* Values of the variables a specification does not use *)

IdleLegal == legal_call = NoValue /\ legal_result = NoResult
IdleBrand == brand_call = NoValue /\ brand_result = NoResult
IdleInputs == scenario = NoValue
IdleFn == fn_call = NoValue /\ fn_result = NoResult
IdleStore == generated = {} /\ s3 = FALSE /\ bucket = {} /\ now = 0 /\ history = <<>>
IdleRun ==
    /\ resolved_assets = <<>> /\ locales_to_render = <<>>
    /\ store = <<>> /\ saves = 0 /\ files = {} /\ provider_calls = 0
    /\ pc = "idle" /\ i = 0 /\ r = 0 /\ l = 0 /\ base_source = "none"
    /\ entry = NoValue /\ counters = NoValue /\ manifest = NoValue /\ metrics = NoValue
    /\ totals = NoValue /\ exception = NoValue

-----------------------------------------------------------------------------
(* SpecLegal: evaluate_legal_text applied to bounded inputs *)

LegalAlphabet == {"a", "b", "B", " "}
LegalTexts == SeqsUpTo(LegalAlphabet, MaxTextLen)

LegalKeywordLists == { <<>>, << <<"a","b">> >>, << <<"b"," ","b">>, <<"B","a">> >> }
LegalRegexLists ==
    { <<>>, << [valid |-> TRUE, text |-> <<"a"," ","b">>] >>, << [valid |-> FALSE, text |-> <<"(">>] >> }
LegalOverrides ==
    { EmptyDict,
      DictSet(EmptyDict, S_es, [blocked_keywords |-> << <<"b","b">> >>, blocked_regex |-> <<>>]),
      DictSet(DictSet(EmptyDict, S_es, [blocked_keywords |-> << <<"b","b">> >>, blocked_regex |-> <<>>]),
              S_es_mx, [blocked_keywords |-> <<>>,
                        blocked_regex |-> << [valid |-> TRUE, text |-> <<"a","a">>] >>]) }
LegalLocales == {S_en, S_es, S_es_dash_MX, S_fr}

LegalPolicies ==
    { [present |-> TRUE, default_action |-> a,
       checks |-> [blocked_keywords |-> k, blocked_regex |-> x], locale_overrides |-> o] :
         a \in {"warn", "block"}, k \in LegalKeywordLists, x \in LegalRegexLists, o \in LegalOverrides }

InitLegal ==
    /\ legal_call \in { Some([text |-> t, locale |-> loc, policy |-> p, strict_legal |-> s]) :
                          t \in LegalTexts, loc \in LegalLocales, p \in LegalPolicies, s \in BOOLEAN }
    /\ legal_result = NoResult
    /\ IdleBrand /\ IdleFn /\ IdleStore /\ IdleInputs /\ IdleRun

LegalEvaluate ==
    /\ legal_call.set /\ ~legal_result.returned
    /\ legal_result' = evaluate_legal_text(legal_call.value.text, legal_call.value.locale,
                                           legal_call.value.policy, legal_call.value.strict_legal)
    /\ legal_call' = [legal_call EXCEPT
                         !.value.policy = policy_after_checks(@, legal_call.value.locale)]
    /\ UNCHANGED <<brand_vars, fn_vars, store_vars, input_vars, run_vars>>

NextLegal == LegalEvaluate

SpecLegal == InitLegal /\ [][NextLegal]_vars

-----------------------------------------------------------------------------
(* SpecBrand: evaluate_brand_compliance applied to bounded inputs *)

BrandAlphabet == {"a", "W"}
BrandPrompts == SeqsUpTo(BrandAlphabet, MaxPromptLen)

S_logo_png ==
    <<"l","o","g","o",".","p","n","g">>
S_Logo_PNG ==
    <<"L","o","g","o",".","P","N","G">>
S_logo_p1_png ==
    <<"l","o","g","o","_","p","1",".","p","n","g">>
S_assets ==
    <<"a","s","s","e","t","s">>
S_p1 ==
    <<"p","1">>
S_white ==
    <<"#","F","F","F","F","F","F">>
S_red ==
    <<"f","f","0","0","0","0">>
S_short_hex ==
    <<"#","F","F","F">>

BrandLogoPaths ==
    { NoValue, Some(<<S_assets, S_p1, S_logo_png>>), Some(<<S_assets, S_p1, S_Logo_PNG>>),
      Some(<<S_assets, S_p1, S_logo_p1_png>>) }
BrandFileSystems == { {}, {<<S_assets, S_p1, S_logo_png>>, <<S_assets, S_p1, S_Logo_PNG>>,
                           <<S_assets, S_p1, S_logo_p1_png>>} }
BrandExpected == { <<>>, <<S_logo_png>>, <<S_logo_p1_png, S_Logo_PNG>> }
BrandPalettes == { <<>>, <<S_white>>, <<S_red, S_white>>, <<S_short_hex>> }
BrandRequired == { <<>>, << <<"w","a">>, <<"A","A">> >> }
BrandAvoid == { <<>>, << <<"w">> >>, << <<"a","W">>, <<"W","W">> >> }
CoverageValues == {0, 1000}
MinCoverageDefault == 10       \* ColorPolicy.min_coverage = 0.01, per mille

\* the coverage the final image has of each palette colour
BrandCoverages == [{hex_to_rgb(S_white).value, hex_to_rgb(S_red).value} -> CoverageValues]

BrandPolicies ==
    { [present |-> TRUE,
       logo |-> [required |-> q, expected_filenames |-> e],
       colors |-> [required_palette |-> pal, min_coverage |-> MinCoverageDefault],
       imagery |-> [required_keywords |-> rk, avoid_keywords |-> ak]] :
         q \in BOOLEAN, e \in BrandExpected, pal \in BrandPalettes, rk \in BrandRequired, ak \in BrandAvoid }

InitBrand ==
    /\ brand_call \in { Some([cov |-> c, policy |-> p, logo_path |-> lp, fs |-> f, prompt_text |-> t]) :
                          c \in BrandCoverages, p \in BrandPolicies, lp \in BrandLogoPaths,
                          f \in BrandFileSystems, t \in BrandPrompts }
    /\ brand_result = NoResult
    /\ IdleLegal /\ IdleFn /\ IdleStore /\ IdleInputs /\ IdleRun

BrandEvaluate ==
    /\ brand_call.set /\ brand_result = NoResult
    /\ brand_result' = evaluate_brand_compliance(brand_call.value.cov, brand_call.value.policy,
                           brand_call.value.logo_path, brand_call.value.fs, brand_call.value.prompt_text)
    /\ UNCHANGED <<brand_call, legal_vars, fn_vars, store_vars, input_vars, run_vars>>

NextBrand == BrandEvaluate

SpecBrand == InitBrand /\ [][NextBrand]_vars

-----------------------------------------------------------------------------
(* localization/translator.py *)

StartsWith(s, prefix) == Len(s) >= Len(prefix) /\ SubSeq(s, 1, Len(prefix)) = prefix

normalize_locale(locale) == Lower(ReplaceChar(Strip(locale), "-", "_"))

\* a slip that takes only "en" itself for English
is_english_locale_ExactOnly(locale) == normalize_locale(locale) = S_en

is_english_locale(locale) ==
    LET normalized == normalize_locale(locale)
    IN  normalized = S_en \/ StartsWith(normalized, <<"e","n","_">>)

\* a slip that canonicalises the locales but keeps the repeated ones
Dedupe_KeepAll(locales, deduped) ==
    deduped \o [k \in 1..Len(locales) |->
                   IF is_english_locale(normalize_locale(locales[k])) THEN S_en
                   ELSE normalize_locale(locales[k])]

RECURSIVE Dedupe(_, _)
Dedupe(locales, deduped) ==
    IF locales = <<>> THEN deduped
    ELSE LET normalized == normalize_locale(locales[1])
             canonical == IF is_english_locale(normalized) THEN S_en ELSE normalized
         IN  Dedupe(Tail(locales),
                    IF canonical \in Range(deduped) THEN deduped ELSE Append(deduped, canonical))

resolve_output_locales(enable_localization, brief_locales, cli_locale) ==
    LET extra == IF cli_locale.set /\ cli_locale.value # <<>> THEN <<cli_locale.value>> ELSE <<>>
        locales == <<S_en>> \o (IF enable_localization THEN brief_locales \o extra ELSE <<>>)
    IN  Dedupe(locales, <<>>)

\* build_localizer: which MessageLocalizer the run uses
build_localizer(enable_localization, provider_mode, gemini_backend) ==
    IF ~enable_localization THEN "noop"
    ELSE IF provider_mode = "mock" THEN "mock"
    ELSE IF provider_mode = "real" /\ gemini_backend = "developer" THEN "gemini"
    ELSE "noop"

\* NoopLocalizer.translate and MockLocalizer.translate (the Gemini localizer is
\* a remote service; no input of the model selects it)
translate(localizer, message, target_locale) ==
    CASE localizer = "noop" -> message
      [] localizer = "mock" -> <<"[">> \o target_locale \o <<"]", " ">> \o message

-----------------------------------------------------------------------------
(* prompts/builder.py *)

PromptProduct ==
    <<"C","r","e","a","t","e"," ","a"," ","p","r","e","m","i","u","m"," ","a","d","v","e","r",
      "t","i","s","i","n","g"," ","h","e","r","o"," ","i","m","a","g","e"," ","f","o","r"," ",
      "p","r","o","d","u","c","t",":"," ">>
PromptAudience ==
    <<"T","a","r","g","e","t"," ","a","u","d","i","e","n","c","e",":"," ">>
PromptRegion ==
    <<"T","a","r","g","e","t"," ","r","e","g","i","o","n",":"," ">>
PromptStyle ==
    <<"V","i","s","u","a","l"," ","s","t","y","l","e"," ","k","e","y","w","o","r","d","s",":",
      " ">>
PromptMood ==
    <<"M","o","o","d",":"," ">>
PromptNoText ==
    <<"N","o"," ","t","e","x","t"," ","o","v","e","r","l","a","y","s"," ","i","n"," ","t","h",
      "e"," ","g","e","n","e","r","a","t","e","d"," ","i","m","a","g","e",".">>

build_generation_prompt(b, resolved) ==
    LET product == resolved.product
        style_keywords == IF b.visual_style.set /\ b.visual_style.value.keywords # <<>>
                          THEN Join(<<",", " ">>, b.visual_style.value.keywords) ELSE <<>>
        mood == IF b.visual_style.set /\ b.visual_style.value.mood.set
                THEN b.visual_style.value.mood.value ELSE <<>>
        parts == << PromptProduct \o product.name \o <<".">>,
                    PromptAudience \o b.target_audience \o <<".">>,
                    PromptRegion \o b.target_region \o <<".">> >>
                 \o (IF style_keywords # <<>> THEN <<PromptStyle \o style_keywords \o <<".">>>> ELSE <<>>)
                 \o (IF mood # <<>> THEN <<PromptMood \o mood \o <<".">>>> ELSE <<>>)
                 \o <<PromptNoText>>
    IN  IF product.prompt.set /\ product.prompt.value # <<>>
        THEN product.prompt.value
        ELSE Join(<<" ">>, parts)

-----------------------------------------------------------------------------
(* assets/resolver.py *)

S_product_png ==
    <<"p","r","o","d","u","c","t",".","p","n","g">>
S_product_ ==
    <<"p","r","o","d","u","c","t","_">>
S_logo_ ==
    <<"l","o","g","o","_">>
S_background_png ==
    <<"b","a","c","k","g","r","o","u","n","d",".","p","n","g">>
S_background_ ==
    <<"b","a","c","k","g","r","o","u","n","d","_">>
S_dot_png ==
    <<".","p","n","g">>

\* _resolve_file
resolve_file(path, fs) == IF path \in fs THEN Some(path) ELSE NoValue

\* a or b, for two optional paths
OrElse(a, b) == IF a.set THEN a ELSE b

resolve_hero(product_dir, product, fs) ==
    IF product.image.set /\ product.image.value # <<>>
    THEN resolve_file(Append(product_dir, product.image.value), fs)
    ELSE OrElse(resolve_file(Append(product_dir, S_product_png), fs),
                resolve_file(Append(product_dir, S_product_ \o product.id \o S_dot_png), fs))

resolve_logo(product_dir, product, fs) ==
    IF product.logo.set /\ product.logo.value # <<>>
    THEN resolve_file(Append(product_dir, product.logo.value), fs)
    ELSE OrElse(resolve_file(Append(product_dir, S_logo_png), fs),
                resolve_file(Append(product_dir, S_logo_ \o product.id \o S_dot_png), fs))

resolve_background(product_dir, product, fs) ==
    OrElse(resolve_file(Append(product_dir, S_background_png), fs),
           resolve_file(Append(product_dir, S_background_ \o product.id \o S_dot_png), fs))

HeroSource(hero_path) == IF hero_path.set THEN "reused" ELSE "generated"

\* a slip that returns the records last product first
resolve_product_assets_Reversed(assets_root, b, fs) ==
    [k \in 1..Len(b.products) |->
        LET product == b.products[Len(b.products) + 1 - k]
            product_dir == <<assets_root, product.id>>
            hero_path == resolve_hero(product_dir, product, fs)
        IN  [product         |-> product,
             product_dir     |-> product_dir,
             hero_path       |-> hero_path,
             logo_path       |-> resolve_logo(product_dir, product, fs),
             background_path |-> resolve_background(product_dir, product, fs),
             hero_source     |-> HeroSource(hero_path)]]

resolve_product_assets(assets_root, b, fs) ==
    [k \in 1..Len(b.products) |->
        LET product == b.products[k]
            product_dir == <<assets_root, product.id>>
            hero_path == resolve_hero(product_dir, product, fs)
        IN  [product         |-> product,
             product_dir     |-> product_dir,
             hero_path       |-> hero_path,
             logo_path       |-> resolve_logo(product_dir, product, fs),
             background_path |-> resolve_background(product_dir, product, fs),
             hero_source     |-> HeroSource(hero_path)]]

-----------------------------------------------------------------------------
(* storage/generated_store.py *)

Digits == <<"0","1","2","3","4","5","6","7","8","9">>

\* The identifier save_new makes (timestamp plus uuid suffix). Here only its
\* freshness matters: the n-th save of a run gets an identifier no stored
\* image has.
NewImageId(n) == <<"r","u","n","_">> \o <<Digits[n + 1]>>

\* load_last_for_product: the newest stored image of the product
RECURSIVE load_last_for_product(_, _)
load_last_for_product(st, product_id) ==
    IF st = <<>> THEN NoValue
    ELSE IF st[Len(st)].product_id = product_id THEN Some(st[Len(st)].image_id)
    ELSE load_last_for_product(SubSeq(st, 1, Len(st) - 1), product_id)

\* load_by_id: a stored image with that identifier, of any product
load_by_id(st, image_id) ==
    IF \E k \in 1..Len(st) : st[k].image_id = image_id THEN Some(image_id) ELSE NoValue

-----------------------------------------------------------------------------
(* Inputs of run_pipeline: bounded briefs, configurations, policies and files. *)
(* The variable scenario holds one index per pool; brief, config, assets,      *)
(* legal_policy, brand_policy and coverage are the values it selects.          *)

S_demo ==
    <<"d","e","m","o">>
S_US ==
    <<"U","S">>
S_audience ==
    <<"a","u","d","i","e","n","c","e">>
S_output ==
    <<"o","u","t","p","u","t">>
S_p2 ==
    <<"p","2">>
S_p3 ==
    <<"p","3">>
S_One ==
    <<"O","n","e">>
S_Two ==
    <<"T","w","o">>
S_Three ==
    <<"T","h","r","e","e">>
S_Brand_PNG ==
    <<"B","r","a","n","d",".","P","N","G">>
S_headline ==
    <<"h","e","a","d","l","i","n","e">>
S_get_free_money ==
    <<"G","e","t"," ","f","r","e","e"," ","m","o","n","e","y">>
S_free_money ==
    <<"f","r","e","e"," ","m","o","n","e","y">>
S_money ==
    <<"m","o","n","e","y">>
S_watermark ==
    <<"w","a","t","e","r","m","a","r","k">>
S_premium ==
    <<"p","r","e","m","i","u","m">>
S_free_money_watermark ==
    <<"f","r","e","e"," ","m","o","n","e","y",","," ","n","o"," ","w","a","t","e","r","m","a",
      "r","k">>
S_seed_image ==
    <<"2","0","2","5","0","1","0","1","T","0","0","0","0","0","0","_","0","a","1","b","2","c",
      "3","d">>
S_unknown_image ==
    <<"2","0","2","5","0","1","0","1","T","0","0","0","0","0","0","_","f","f","f","f","f","f",
      "f","f">>

Product1 == [id |-> S_p1, name |-> S_One, prompt |-> NoValue, image |-> NoValue, logo |-> NoValue]
Product2 == [id |-> S_p2, name |-> S_Two, prompt |-> NoValue, image |-> NoValue, logo |-> Some(S_Brand_PNG)]
Product3 == [id |-> S_p3, name |-> S_Three, prompt |-> Some(S_free_money_watermark),
             image |-> NoValue, logo |-> NoValue]
ProductPool == <<Product1, Product2, Product3>>

\* the product lists of the briefs: rotations of the pool, cut to 2..MaxProducts products
ProductList(first, count) == [k \in 1..count |-> ProductPool[((first + k - 2) % Len(ProductPool)) + 1]]
ProductFirsts == 1..Len(ProductPool)
ProductCounts == 2..(IF MaxProducts < Len(ProductPool) THEN MaxProducts ELSE Len(ProductPool))

Messages == <<S_headline, S_get_free_money>>

\* (localize, brief.locals, --locale)
LocaleSetups ==
    << [localize |-> FALSE, locals |-> <<S_es>>, locale |-> Some(S_fr)],
       [localize |-> TRUE, locals |-> <<S_es, S_pt_dash_BR>>, locale |-> NoValue],
       [localize |-> TRUE, locals |-> <<S_EN_dash_us, S_es>>, locale |-> Some(S_ES_upper)] >>

\* the files under assets_root
AssetLayouts ==
    << {},
       { <<S_assets, S_p1, S_product_png>>, <<S_assets, S_p1, S_logo_png>>,
         <<S_assets, S_p2, S_Brand_PNG>> },
       { <<S_assets, S_p1, S_product_ \o S_p1 \o S_dot_png>>, <<S_assets, S_p2, S_product_png>>,
         <<S_assets, S_p2, S_logo_png>>, <<S_assets, S_p3, S_product_png>>,
         <<S_assets, S_p3, S_logo_ \o S_p3 \o S_dot_png>>, <<S_assets, S_p3, S_background_png>> } >>

\* (generated_image_mode, generated_image_id, the store before the run)
SeedStore == << [product_id |-> S_p1, image_id |-> S_seed_image] >>
StoreSetups ==
    << [mode |-> "new", id |-> NoValue, store |-> <<>>],
       [mode |-> "last", id |-> NoValue, store |-> <<>>],
       [mode |-> "last", id |-> NoValue, store |-> SeedStore],
       [mode |-> "id", id |-> NoValue, store |-> SeedStore],
       [mode |-> "id", id |-> Some(S_seed_image), store |-> SeedStore],
       [mode |-> "id", id |-> Some(S_unknown_image), store |-> SeedStore] >>

PipelineLegalPolicy(action, keywords, overrides) ==
    [present |-> TRUE, default_action |-> action,
     checks |-> [blocked_keywords |-> keywords, blocked_regex |-> <<>>],
     locale_overrides |-> overrides]

\* (legal policy, strict_legal)
LegalSetups ==
    << [policy |-> NoPolicy, strict |-> FALSE],
       [policy |-> PipelineLegalPolicy("warn", <<S_free_money>>, EmptyDict), strict |-> FALSE],
       [policy |-> PipelineLegalPolicy("warn", <<S_free_money>>, EmptyDict), strict |-> TRUE],
       [policy |-> PipelineLegalPolicy("block", <<S_free_money>>, EmptyDict), strict |-> FALSE],
       [policy |-> PipelineLegalPolicy("warn", <<>>,
                       DictSet(EmptyDict, S_es, [blocked_keywords |-> <<S_money>>, blocked_regex |-> <<>>])),
        strict |-> TRUE] >>

LogoBrandPolicy ==
    [present |-> TRUE,
     logo |-> [required |-> TRUE, expected_filenames |-> <<S_logo_png>>],
     colors |-> [required_palette |-> <<>>, min_coverage |-> MinCoverageDefault],
     imagery |-> [required_keywords |-> <<>>, avoid_keywords |-> <<>>]]
ImageryBrandPolicy ==
    [present |-> TRUE,
     logo |-> [required |-> FALSE, expected_filenames |-> <<S_logo_png>>],
     colors |-> [required_palette |-> <<S_white>>, min_coverage |-> MinCoverageDefault],
     imagery |-> [required_keywords |-> <<S_premium>>, avoid_keywords |-> <<S_watermark>>]]

\* (brand policy, strict_brand, palette coverage of the rendered images)
BrandSetups ==
    << [policy |-> NoPolicy, strict |-> FALSE, coverage |-> 0],
       [policy |-> LogoBrandPolicy, strict |-> FALSE, coverage |-> 0],
       [policy |-> LogoBrandPolicy, strict |-> TRUE, coverage |-> 0],
       [policy |-> ImageryBrandPolicy, strict |-> FALSE, coverage |-> 0],
       [policy |-> ImageryBrandPolicy, strict |-> TRUE, coverage |-> 1000] >>

\* The runs explored. Inputs that do not meet in the code are not multiplied:
\* the store matters only to a product without a hero file, the message only
\* to a run with a legal policy, and a blocking legal check ends the run
\* before the brand check of the same variant.
Scenarios ==
    { s \in [message : DOMAIN Messages, first : ProductFirsts, count : ProductCounts,
             locales : DOMAIN LocaleSetups, layout : DOMAIN AssetLayouts,
             store : DOMAIN StoreSetups, legal : DOMAIN LegalSetups,
             brand : DOMAIN BrandSetups, dry_run : BOOLEAN] :
        /\ (s.layout = 2 => s.store \in {1, 3, 4})
        /\ (s.layout = 3 => s.store = 1)
        /\ (s.legal = 1 => s.message = 1)
        /\ (s.legal = 5 => s.message = 2)
        /\ (s.legal # 1 => s.brand \in {1, 2, 5}) }

\* the CampaignBrief the run loads
brief ==
    [campaign_id |-> S_demo, message |-> Messages[scenario.message], target_region |-> S_US,
     target_audience |-> S_audience, locals |-> LocaleSetups[scenario.locales].locals,
     products |-> ProductList(scenario.first, scenario.count), visual_style |-> NoValue]

\* the RunConfig
config ==
    [assets_root |-> S_assets, output_root |-> S_output,
     provider_mode |-> "mock", gemini_backend |-> "developer",
     locale |-> LocaleSetups[scenario.locales].locale,
     localize |-> LocaleSetups[scenario.locales].localize,
     dry_run |-> scenario.dry_run,
     strict_brand |-> BrandSetups[scenario.brand].strict,
     strict_legal |-> LegalSetups[scenario.legal].strict,
     generated_image_mode |-> StoreSetups[scenario.store].mode,
     generated_image_id |-> StoreSetups[scenario.store].id]

assets == AssetLayouts[scenario.layout]            \* files that exist under assets_root
legal_policy == LegalSetups[scenario.legal].policy  \* LegalPolicy or NoPolicy
brand_policy == BrandSetups[scenario.brand].policy  \* BrandPolicy or NoPolicy
coverage == BrandSetups[scenario.brand].coverage    \* palette coverage (per mille) of the rendered images

-----------------------------------------------------------------------------
(* pipeline.py *)

TARGET_VARIANTS == << <<"1","x","1">>, <<"9","x","1","6">>, <<"1","6","x","9">> >>

S_final ==
    <<"f","i","n","a","l">>
S_manifest_json ==
    <<"m","a","n","i","f","e","s","t",".","j","s","o","n">>
S_metrics_json ==
    <<"m","e","t","r","i","c","s",".","j","s","o","n">>
K_prompt ==
    <<"p","r","o","m","p","t">>
K_message_en ==
    <<"m","e","s","s","a","g","e","_","e","n">>
K_message_ ==
    <<"m","e","s","s","a","g","e","_">>

NoException == [set |-> FALSE]
ValueError == [set |-> TRUE, type |-> "ValueError", violations |-> <<>>, raised_by |-> "other"]

\* ComplianceViolationError.__init__: self.violations = violations or []
ComplianceViolationError(violations, raised_by) ==
    [set |-> TRUE, type |-> "ComplianceViolationError",
     violations |-> IF violations.set THEN violations.value ELSE <<>>,
     raised_by |-> raised_by]

\* _load_reused_or_generate_base: what it returns or raises, whether it calls
\* the provider and whether it saves the image to the store
load_reused_or_generate_base(resolved, st, fs, generated_image_mode, generated_image_id, dry_run) ==
    LET last_result == load_last_for_product(st, resolved.product.id)
    IN  IF resolved.hero_path.set /\ resolved.hero_path.value \in fs
        THEN [raised |-> FALSE, source |-> "reused", called |-> FALSE, saved |-> FALSE]
        ELSE IF generated_image_mode = "last" /\ last_result.set
        THEN [raised |-> FALSE, source |-> "generated_last", called |-> FALSE, saved |-> FALSE]
        ELSE IF generated_image_mode = "id"
        THEN IF ~(generated_image_id.set /\ generated_image_id.value # <<>>)
             THEN [raised |-> TRUE, source |-> "none", called |-> FALSE, saved |-> FALSE]
             ELSE IF ~load_by_id(st, generated_image_id.value).set
             THEN [raised |-> TRUE, source |-> "none", called |-> FALSE, saved |-> FALSE]
             ELSE [raised |-> FALSE, source |-> "generated_id", called |-> FALSE, saved |-> FALSE]
        ELSE [raised |-> FALSE, source |-> "generated_new", called |-> TRUE, saved |-> ~dry_run]

\* a slip that counts only a hero file found under assets_root as reused
AssetsReused_HeroFileOnly(source) == IF source = "reused" THEN 1 ELSE 0

\* assets_reused = 1 if base_source in {"reused", "generated_last", "generated_id"} else 0
AssetsReused(source) == IF source \in {"reused", "generated_last", "generated_id"} THEN 1 ELSE 0

\* a slip that keys every locale's output by the ratio alone
OutputKey_RatioOnly(ratio_key, locale_code) == ratio_key

\* ratio_key if locale_code == "en" else f"{ratio_key}_{normalize_locale(locale_code)}"
OutputKey(ratio_key, locale_code) ==
    IF locale_code = S_en THEN ratio_key ELSE ratio_key \o <<"_">> \o normalize_locale(locale_code)

\* a slip that records every locale's message result under the English key
LegalKey_English(locale_code) == K_message_en

\* "message_en" if locale_code == "en" else f"message_{normalize_locale(locale_code)}"
LegalKey(locale_code) ==
    IF locale_code = S_en THEN K_message_en ELSE K_message_ \o normalize_locale(locale_code)

\* output_root / campaign_id / product.id / ratio_key / f"final{locale_suffix}.png"
OutputPath(output_root, campaign_id, product_id, ratio_key, locale_code) ==
    LET locale_suffix == IF locale_code = S_en THEN <<>> ELSE <<"_">> \o normalize_locale(locale_code)
    IN  <<output_root, campaign_id, product_id, ratio_key, S_final \o locale_suffix \o S_dot_png>>

ManifestPath(output_root, campaign_id) == <<output_root, campaign_id, S_manifest_json>>
MetricsPath(output_root, campaign_id) == <<output_root, campaign_id, S_metrics_json>>

\* a slip that saves the composed image in a dry run as well
SavesOutput_Always(dry_run) == TRUE

\* if not config.dry_run: save_image(localized_variant, output_path)
SavesOutput(dry_run) == ~dry_run

\* What the run hands to the mirror, when S3Mirror.from_env() gave one: the
\* keys generated/{product_id}/{image_id}.png and output/{path below output_root}.
\* An upload that fails leaves out its key and changes nothing else.
S_generated ==
    <<"g","e","n","e","r","a","t","e","d">>
S_output_prefix ==
    <<"o","u","t","p","u","t">>
upload_generated_image(bkt, has_s3, product_id, image_id) ==
    IF has_s3 THEN bkt \cup {<<S_generated, product_id, image_id \o S_dot_png>>} ELSE bkt
upload_output_file(bkt, has_s3, local_path, output_root) ==
    IF has_s3 /\ local_path[1] = output_root
    THEN bkt \cup {<<S_output_prefix>> \o Tail(local_path)}
    ELSE bkt

\* a slip that aborts on every failed brand check, strict or not
BrandAborts_Always(compliance, strict_brand) == ~compliance.passed

\* if not compliance.passed: ... if config.strict_brand: raise
BrandAborts(compliance, strict_brand) == ~compliance.passed /\ strict_brand

\* the violations argument the strict-brand raise passes to ComplianceViolationError
BrandRaiseViolations(compliance) == NoValue

\* the locals of the product being processed
Resolved == resolved_assets[i]
Prompt == build_generation_prompt(brief, Resolved)
\* a slip that walks the ratios from the last to the first
RatioKey_Reversed == TARGET_VARIANTS[Len(TARGET_VARIANTS) + 1 - r]
RatioKey == TARGET_VARIANTS[r]
LocaleCode == locales_to_render[l]
Localizer == build_localizer(config.localize, config.provider_mode, config.gemini_backend)
LocalizedMessage ==
    IF LocaleCode = S_en THEN brief.message ELSE translate(Localizer, brief.message, LocaleCode)
CurrentKey == OutputKey(RatioKey, LocaleCode)
CurrentOutputPath ==
    OutputPath(config.output_root, brief.campaign_id, Resolved.product.id, RatioKey, LocaleCode)

\* the palette coverage of the rendered image, for every colour of the policy
ImageCoverage ==
    [c \in {hex_to_rgb(h).value : h \in {x \in Range(brand_policy.colors.required_palette) :
                                            hex_to_rgb(x).set}} |-> coverage]

ZeroCounters ==
    [legal_checked |-> 0, legal_flagged |-> 0, legal_blocked |-> 0,
     compliance_passed |-> 0, compliance_failed |-> 0,
     assets_reused |-> 0, variants_produced |-> 0]

\* run_pipeline, lines 351-385: collaborators, resolution, empty manifest and metrics
StartRun ==
    /\ pc = "start"
    /\ resolved_assets' = resolve_product_assets(config.assets_root, brief, assets)
    /\ locales_to_render' = resolve_output_locales(config.localize, brief.locals, config.locale)
    /\ manifest' = [products |-> <<>>,
                    locales_processed |-> resolve_output_locales(config.localize, brief.locals, config.locale),
                    brand_compliance_summary |-> NoValue, legal_compliance_summary |-> NoValue]
    /\ metrics' = [total_products_processed |-> 0, assets_reused |-> 0, assets_generated |-> 0,
                   total_variants_produced |-> 0]
    /\ totals' = [compliance_passed |-> 0, compliance_failed |-> 0,
                  legal_checked |-> 0, legal_flagged |-> 0, legal_blocked |-> 0]
    /\ i' = 1
    /\ pc' = IF Len(brief.products) >= 1 THEN "begin" ELSE "finalize"
    /\ UNCHANGED <<legal_vars, brand_vars, fn_vars, store_vars, input_vars, store, saves, files, provider_calls,
                   r, l, base_source, entry, counters, exception>>

\* _process_product, lines 201-227: the prompt, the base hero, the manifest entry
BeginProduct ==
    /\ pc = "begin"
    /\ LET got == IF Resolved.hero_source # "reused"
                  THEN load_reused_or_generate_base(Resolved, store, assets,
                           config.generated_image_mode, config.generated_image_id, config.dry_run)
                  ELSE [raised |-> FALSE, source |-> Resolved.hero_source,
                        called |-> FALSE, saved |-> FALSE]
       IN  /\ provider_calls' = IF got.called THEN provider_calls + 1 ELSE provider_calls
           /\ store' = IF got.saved
                       THEN Append(store, [product_id |-> Resolved.product.id,
                                           image_id |-> NewImageId(saves)])
                       ELSE store
           /\ saves' = IF got.saved THEN saves + 1 ELSE saves
           /\ bucket' = IF got.saved
                        THEN upload_generated_image(bucket, s3, Resolved.product.id, NewImageId(saves))
                        ELSE bucket
           /\ IF got.raised
              THEN /\ exception' = ValueError
                   /\ pc' = "raised"
                   /\ UNCHANGED <<base_source, entry, counters>>
              ELSE /\ base_source' = got.source
                   /\ entry' = [product_id |-> Resolved.product.id,
                                product_name |-> Resolved.product.name,
                                hero_source |-> got.source,
                                output_files |-> EmptyDict, compliance |-> EmptyDict,
                                legal |-> EmptyDict]
                   /\ counters' = ZeroCounters
                   /\ pc' = "prompt_legal"
                   /\ UNCHANGED exception
    /\ UNCHANGED <<legal_vars, brand_vars, fn_vars, generated, s3, now, history, input_vars,
                   resolved_assets, locales_to_render, files, i, r, l, manifest, metrics, totals>>

\* a slip that records a blocking prompt check and carries on
AfterPromptLegal_NoRaise(prompt_legal) ==
    /\ entry' = [entry EXCEPT !.legal = DictSet(@, K_prompt, prompt_legal)]
    /\ counters' = [counters EXCEPT
                       !.legal_checked = @ + 1,
                       !.legal_flagged = IF prompt_legal.flagged THEN @ + 1 ELSE @,
                       !.legal_blocked = IF prompt_legal.should_block THEN @ + 1 ELSE @,
                       !.assets_reused = AssetsReused(base_source)]
    /\ r' = 1
    /\ pc' = "compose"
    /\ UNCHANGED exception

\* _process_product, lines 231-249, given the result of the prompt's legal check
AfterPromptLegal(prompt_legal) ==
    /\ entry' = [entry EXCEPT !.legal = DictSet(@, K_prompt, prompt_legal)]
    /\ counters' = [counters EXCEPT
                       !.legal_checked = @ + 1,
                       !.legal_flagged = IF prompt_legal.flagged THEN @ + 1 ELSE @,
                       !.legal_blocked = IF prompt_legal.should_block THEN @ + 1 ELSE @,
                       !.assets_reused = IF prompt_legal.should_block THEN @ ELSE AssetsReused(base_source)]
    /\ IF prompt_legal.should_block
       THEN /\ exception' = ComplianceViolationError(Some(prompt_legal.violations), "legal_prompt")
            /\ pc' = "raised"
            /\ UNCHANGED r
       ELSE /\ r' = 1
            /\ pc' = "compose"
            /\ UNCHANGED exception

\* _process_product, lines 229-249: the legal check of the generation prompt
PromptLegal ==
    /\ pc = "prompt_legal"
    /\ IF legal_policy.present
       THEN AfterPromptLegal(evaluate_legal_text(Prompt, S_en, legal_policy, config.strict_legal))
       ELSE /\ counters' = [counters EXCEPT !.assets_reused = AssetsReused(base_source)]
            /\ r' = 1
            /\ pc' = "compose"
            /\ UNCHANGED <<entry, exception>>
    /\ UNCHANGED <<legal_vars, brand_vars, fn_vars, store_vars, input_vars, resolved_assets, locales_to_render,
                   store, saves, files, provider_calls, i, l, base_source, manifest, metrics, totals>>

\* _process_product, lines 251-268: the ratio variant of the hero and the typography
ComposeRatio ==
    /\ pc = "compose"
    /\ l' = 1
    /\ pc' = IF Len(locales_to_render) >= 1 THEN "message_legal" ELSE "next_ratio"
    /\ UNCHANGED <<legal_vars, brand_vars, fn_vars, store_vars, input_vars, resolved_assets, locales_to_render,
                   store, saves, files, provider_calls, i, r, base_source, entry, counters,
                   manifest, metrics, totals, exception>>

\* a slip that notes a blocking message check and carries on with the variant
AfterMessageLegal_Continues(message_legal) ==
    /\ entry' = [entry EXCEPT !.legal = DictSet(@, LegalKey(LocaleCode), message_legal)]
    /\ counters' = [counters EXCEPT
                       !.legal_checked = @ + 1,
                       !.legal_flagged = IF message_legal.flagged THEN @ + 1 ELSE @,
                       !.legal_blocked = IF message_legal.should_block THEN @ + 1 ELSE @]
    /\ exception' = IF message_legal.should_block
                    THEN ComplianceViolationError(Some(message_legal.violations), "legal_message")
                    ELSE exception
    /\ pc' = "brand"

\* _process_product, lines 281-291, given the result of the message's legal check
AfterMessageLegal(message_legal) ==
    /\ entry' = [entry EXCEPT !.legal = DictSet(@, LegalKey(LocaleCode), message_legal)]
    /\ counters' = [counters EXCEPT
                       !.legal_checked = @ + 1,
                       !.legal_flagged = IF message_legal.flagged THEN @ + 1 ELSE @,
                       !.legal_blocked = IF message_legal.should_block THEN @ + 1 ELSE @]
    /\ IF message_legal.should_block
       THEN /\ exception' = ComplianceViolationError(Some(message_legal.violations), "legal_message")
            /\ pc' = "raised"
       ELSE /\ pc' = "brand"
            /\ UNCHANGED exception

\* _process_product, lines 270-291: the localized message and its legal check
MessageLegal ==
    /\ pc = "message_legal"
    /\ IF legal_policy.present
       THEN AfterMessageLegal(evaluate_legal_text(LocalizedMessage, LocaleCode, legal_policy,
                                                  config.strict_legal))
       ELSE /\ pc' = "brand"
            /\ UNCHANGED <<entry, counters, exception>>
    /\ UNCHANGED <<legal_vars, brand_vars, fn_vars, store_vars, input_vars, resolved_assets, locales_to_render,
                   store, saves, files, provider_calls, i, r, l, base_source, manifest, metrics, totals>>

\* _process_product, lines 315-326, given the result of the brand check
AfterBrandCheck(compliance) ==
    IF ~compliance.returned
    THEN /\ exception' = ValueError
         /\ pc' = "raised"
         /\ UNCHANGED <<entry, counters>>
    ELSE /\ entry' = [entry EXCEPT
                         !.compliance = DictSet(@, CurrentKey, compliance)]
         /\ counters' = [counters EXCEPT
                            !.compliance_passed = IF compliance.passed THEN @ + 1 ELSE @,
                            !.compliance_failed = IF compliance.passed THEN @ ELSE @ + 1]
         /\ IF BrandAborts(compliance, config.strict_brand)
            THEN /\ exception' = ComplianceViolationError(BrandRaiseViolations(compliance), "brand")
                 /\ pc' = "raised"
            ELSE /\ pc' = "write"
                 /\ UNCHANGED exception

\* _process_product, lines 293-326: the overlays, the output path, the brand check
BrandCheck ==
    /\ pc = "brand"
    /\ IF brand_policy.present
       THEN AfterBrandCheck(evaluate_brand_compliance(ImageCoverage, brand_policy,
                                Resolved.logo_path, assets, Prompt))
       ELSE /\ pc' = "write"
            /\ UNCHANGED <<entry, counters, exception>>
    /\ UNCHANGED <<legal_vars, brand_vars, fn_vars, store_vars, input_vars, resolved_assets, locales_to_render,
                   store, saves, files, provider_calls, i, r, l, base_source, manifest, metrics, totals>>

\* _process_product, lines 328-335: save the image, count and record the variant;
\* then the next locale, the next ratio, or the end of the product
WriteVariant ==
    /\ pc = "write"
    /\ files' = IF SavesOutput(config.dry_run) THEN files \cup {CurrentOutputPath} ELSE files
    /\ bucket' = IF SavesOutput(config.dry_run)
                 THEN upload_output_file(bucket, s3, CurrentOutputPath, config.output_root)
                 ELSE bucket
    /\ counters' = [counters EXCEPT !.variants_produced = @ + 1]
    /\ entry' = [entry EXCEPT
                    !.output_files = DictSet(@, CurrentKey, CurrentOutputPath)]
    /\ IF l < Len(locales_to_render)
       THEN l' = l + 1 /\ pc' = "message_legal" /\ UNCHANGED r
       ELSE pc' = "next_ratio" /\ UNCHANGED <<l, r>>
    /\ UNCHANGED <<legal_vars, brand_vars, fn_vars, generated, s3, now, history, input_vars,
                   resolved_assets, locales_to_render,
                   store, saves, provider_calls, i, base_source, manifest, metrics, totals, exception>>

\* _process_product, line 251: the ratio loop advances or ends
NextRatio ==
    /\ pc = "next_ratio"
    /\ IF r < Len(TARGET_VARIANTS)
       THEN r' = r + 1 /\ pc' = "compose"
       ELSE pc' = "product_done" /\ UNCHANGED r
    /\ UNCHANGED <<legal_vars, brand_vars, fn_vars, store_vars, input_vars, resolved_assets, locales_to_render,
                   store, saves, files, provider_calls, i, l, base_source, entry, counters,
                   manifest, metrics, totals, exception>>

\* _process_product, lines 337-347, and run_pipeline, lines 400-409
FinishProduct ==
    /\ pc = "product_done"
    /\ manifest' = [manifest EXCEPT !.products = Append(@, entry)]
    /\ metrics' = [metrics EXCEPT
                      !.total_products_processed = @ + 1,
                      !.assets_reused = @ + counters.assets_reused,
                      !.assets_generated = @ + (1 - counters.assets_reused),
                      !.total_variants_produced = @ + counters.variants_produced]
    /\ totals' = [totals EXCEPT
                     !.compliance_passed = @ + counters.compliance_passed,
                     !.compliance_failed = @ + counters.compliance_failed,
                     !.legal_checked = @ + counters.legal_checked,
                     !.legal_flagged = @ + counters.legal_flagged,
                     !.legal_blocked = @ + counters.legal_blocked]
    /\ IF i < Len(resolved_assets)
       THEN i' = i + 1 /\ pc' = "begin"
       ELSE pc' = "finalize" /\ UNCHANGED i
    /\ UNCHANGED <<legal_vars, brand_vars, fn_vars, store_vars, input_vars, resolved_assets, locales_to_render,
                   store, saves, files, provider_calls, r, l, base_source, entry, counters, exception>>

\* run_pipeline, lines 411-435: the summaries, manifest.json and metrics.json
Finalize ==
    /\ pc = "finalize"
    /\ manifest' = [manifest EXCEPT
                       !.brand_compliance_summary =
                           IF brand_policy.present
                           THEN Some([variants_checked |-> totals.compliance_passed + totals.compliance_failed,
                                      variants_passed |-> totals.compliance_passed,
                                      variants_failed |-> totals.compliance_failed])
                           ELSE @,
                       !.legal_compliance_summary =
                           IF legal_policy.present
                           THEN Some([checks_executed |-> totals.legal_checked,
                                      checks_flagged |-> totals.legal_flagged,
                                      checks_blocked |-> totals.legal_blocked])
                           ELSE @]
    /\ files' = files \cup {ManifestPath(config.output_root, brief.campaign_id),
                            MetricsPath(config.output_root, brief.campaign_id)}
    /\ bucket' = upload_output_file(
                     upload_output_file(bucket, s3, ManifestPath(config.output_root, brief.campaign_id),
                                        config.output_root),
                     s3, MetricsPath(config.output_root, brief.campaign_id), config.output_root)
    /\ pc' = "done"
    /\ UNCHANGED <<legal_vars, brand_vars, fn_vars, generated, s3, now, history, input_vars,
                   resolved_assets, locales_to_render,
                   store, saves, provider_calls, i, r, l, base_source, entry, counters,
                   metrics, totals, exception>>

Next ==
    \/ StartRun
    \/ BeginProduct
    \/ PromptLegal
    \/ ComposeRatio
    \/ MessageLegal
    \/ BrandCheck
    \/ WriteVariant
    \/ NextRatio
    \/ FinishProduct
    \/ Finalize

-----------------------------------------------------------------------------
(* Spec: run_pipeline on the bounded inputs *)

Init ==
    /\ scenario \in Scenarios
    /\ store = StoreSetups[scenario.store].store
    /\ resolved_assets = <<>> /\ locales_to_render = <<>>
    /\ saves = 0 /\ files = {} /\ provider_calls = 0
    /\ pc = "start" /\ i = 0 /\ r = 0 /\ l = 0 /\ base_source = "none"
    /\ entry = NoValue /\ counters = NoValue /\ manifest = NoValue /\ metrics = NoValue
    /\ totals = NoValue /\ exception = NoException
    /\ s3 \in BOOLEAN /\ bucket = {}
    /\ generated = {} /\ now = 0 /\ history = <<>>
    /\ IdleLegal /\ IdleBrand /\ IdleFn

Spec == Init /\ [][Next]_vars
-----------------------------------------------------------------------------
(* Claims about evaluate_legal_text, checked under SpecLegal *)

LegalEffectiveKeywords ==
    Range(checks_for_locale(legal_call.value.policy, legal_call.value.locale).blocked_keywords)

\* C2: for every text, locale, policy and strict flag, should_block is
\* flagged AND (strict_legal OR default_action = "block"), passed is NOT
\* should_block, and a flagged text under default_action "warn" with strict
\* mode off passes with a non-empty violations list and no warnings.
C2_ShouldBlockAndPassed ==
    legal_result.returned =>
        LET c == legal_call.value
            res == legal_result
        IN  /\ res.flagged = (Len(res.hits) > 0)
            /\ res.should_block = (res.flagged /\ (c.strict_legal \/ c.policy.default_action = "block"))
            /\ res.passed = ~res.should_block
            /\ (res.flagged /\ c.policy.default_action = "warn" /\ ~c.strict_legal)
                   => (res.passed /\ Len(res.violations) > 0 /\ res.warnings = <<>>)

C2_Witness ==
    /\ legal_result.returned
    /\ legal_result.flagged /\ legal_call.value.policy.default_action = "warn"
    /\ ~legal_call.value.strict_legal
    /\ legal_result.passed /\ Len(legal_result.violations) = 1

\* C3: whenever the text contains a blocked keyword of the locale's effective
\* rule set as a case-insensitive substring, the result is flagged.
C3_KeywordInTextIsFlagged ==
    legal_result.returned =>
        \A keyword \in LegalEffectiveKeywords :
            Contains(Lower(legal_call.value.text), Lower(keyword)) => legal_result.flagged

-----------------------------------------------------------------------------
(* Claims about evaluate_brand_compliance, checked under SpecBrand *)

BrandViolationKinds == {brand_result.violations[k].kind : k \in 1..Len(brand_result.violations)}
BrandWarningKinds == {brand_result.warnings[k].kind : k \in 1..Len(brand_result.warnings)}

\* the three causes of a violation, read off the arguments of the call
BrandLogoMissing ==
    LET c == brand_call.value
    IN  c.policy.logo.required /\ ~(c.logo_path.set /\ c.logo_path.value \in c.fs)
BrandLogoNameRejected ==
    LET c == brand_call.value
        expected == c.policy.logo.expected_filenames
    IN  /\ c.policy.logo.required /\ c.logo_path.set /\ c.logo_path.value \in c.fs
        /\ expected # <<>>
        /\ \A k \in 1..Len(expected) : Lower(expected[k]) # Lower(PathName(c.logo_path.value))
BrandAvoidedKeywords ==
    LET c == brand_call.value
    IN  {kw \in Range(c.policy.imagery.avoid_keywords) : Contains(Lower(c.prompt_text), Lower(kw))}
BrandPaletteShortfalls ==
    LET c == brand_call.value
    IN  {hex \in Range(c.policy.colors.required_palette) :
            c.cov[hex_to_rgb(hex).value] < c.policy.colors.min_coverage}
BrandAbsentRequired ==
    LET c == brand_call.value
    IN  {kw \in Range(c.policy.imagery.required_keywords) : ~Contains(Lower(c.prompt_text), Lower(kw))}

\* C4: passed holds exactly when there is no violation; a violation is
\* produced exactly for a missing required logo, a required logo whose name is
\* not accepted (case-insensitively), or an avoided keyword in the prompt;
\* palette shortfalls and absent required keywords only add warnings; a
\* missing logo is no violation when the policy does not require one.
C4_BrandPassedIffNoViolation ==
    brand_result.returned =>
        LET res == brand_result
        IN  /\ res.passed = (Len(res.violations) = 0)
            /\ ("logo_missing" \in BrandViolationKinds) = BrandLogoMissing
            /\ ("logo_filename" \in BrandViolationKinds) = BrandLogoNameRejected
            /\ {v.subject : v \in {w \in Range(res.violations) : w.kind = "imagery_avoid"}}
                   = BrandAvoidedKeywords
            /\ BrandViolationKinds \subseteq {"logo_missing", "logo_filename", "imagery_avoid"}
            /\ res.passed = ~(BrandLogoMissing \/ BrandLogoNameRejected \/ BrandAvoidedKeywords # {})
            /\ {v.subject : v \in {w \in Range(res.warnings) : w.kind = "palette"}}
                   = BrandPaletteShortfalls
            /\ {v.subject : v \in {w \in Range(res.warnings) : w.kind = "imagery_required"}}
                   = BrandAbsentRequired
            /\ BrandWarningKinds \subseteq {"palette", "imagery_required"}
            /\ (~brand_call.value.policy.logo.required => "logo_missing" \notin BrandViolationKinds)

C4_Witness ==
    /\ brand_result.returned
    /\ brand_result.passed
    /\ BrandWarningKinds = {"palette", "imagery_required"}
    /\ ~brand_call.value.policy.logo.required /\ ~brand_call.value.logo_path.set

-----------------------------------------------------------------------------
(* Claims about run_pipeline, checked under Spec *)

Started == pc \notin {"idle", "start"}
HasEntry == Started /\ entry # NoValue
RaisedBy(site) == pc = "raised" /\ exception.set /\ exception.raised_by = site
NumProducts == Len(brief.products)
NumLocales == Len(locales_to_render)
Products == {manifest.products[k] : k \in 1..Len(manifest.products)}
MessageKeys(e) == DOMAIN e.legal \ {K_prompt}

\* a legal policy is in force, strict legal mode is on, and the campaign
\* message contains a phrase the policy blocks
StrictBlockedMessage ==
    /\ legal_policy.present /\ config.strict_legal
    /\ \E k \in 1..Len(legal_policy.checks.blocked_keywords) :
           Contains(Lower(brief.message), Lower(legal_policy.checks.blocked_keywords[k]))

\* C1: when a legal policy is in force, strict legal mode is on and the
\* campaign message contains a blocked phrase, the run ends with
\* ComplianceViolationError and has written no file by then: nothing under
\* output_root and nothing in the generated-image store. (A run that an
\* unusable --generated-image-id ends with ValueError is left aside.)
C1_LegalAbortBeforeAnyFile ==
    (pc \in {"raised", "done"} /\ StrictBlockedMessage /\ ~RaisedBy("other")) =>
        /\ pc = "raised"
        /\ exception.type = "ComplianceViolationError"
        /\ files = {}
        /\ saves = 0

\* C5: a failed brand check under strict_brand ends the run with
\* ComplianceViolationError while the variant is neither written, recorded in
\* output_files nor counted; under permissive mode the run is never ended by
\* the brand check, the failed result is in the compliance map, the variant is
\* written (unless dry_run, as any variant) and counted, and a run that
\* completes has processed every product and every ratio x locale combination.
C5_BrandFailureStrictAbortsPermissiveContinues ==
    (HasEntry /\ brand_policy.present) =>
        /\ RaisedBy("brand") =>
              /\ config.strict_brand
              /\ exception.type = "ComplianceViolationError"
              /\ CurrentKey \in DOMAIN entry.compliance
              /\ ~entry.compliance[CurrentKey].passed
              /\ CurrentKey \notin DOMAIN entry.output_files
              /\ CurrentOutputPath \notin files
        /\ counters.variants_produced = Cardinality(DOMAIN entry.output_files)
        /\ \A k \in DOMAIN entry.output_files : (entry.output_files[k] \in files) = ~config.dry_run
        /\ config.strict_brand =>
              \A k \in DOMAIN entry.compliance :
                  ~entry.compliance[k].passed => (RaisedBy("brand") /\ k = CurrentKey)
        /\ ~config.strict_brand =>
              /\ ~RaisedBy("brand")
              /\ \A k \in DOMAIN entry.compliance :
                     ~entry.compliance[k].passed =>
                         (k \in DOMAIN entry.output_files \/ (pc = "write" /\ k = CurrentKey))
              /\ pc = "done" =>
                     /\ Len(manifest.products) = NumProducts
                     /\ \A e \in Products :
                            /\ Cardinality(DOMAIN e.output_files) = 3 * NumLocales
                            /\ DOMAIN e.compliance = DOMAIN e.output_files

C5_Witness ==
    /\ pc = "done" /\ brand_policy.present /\ ~config.strict_brand
    /\ NumProducts >= 2 /\ NumLocales >= 2
    /\ \E e \in Products : \E k \in DOMAIN e.compliance :
           /\ ~e.compliance[k].passed
           /\ k \in DOMAIN e.output_files
           /\ e.output_files[k] \in files
    /\ manifest.brand_compliance_summary.value.variants_failed >= 1

HeroCount(sources) == Cardinality({k \in 1..Len(manifest.products) : manifest.products[k].hero_source \in sources})

C7_VariantCount ==
    pc = "done" =>
        /\ Len(manifest.products) = NumProducts
        /\ Len(manifest.locales_processed) = NumLocales
        /\ metrics.total_variants_produced = NumProducts * 3 * NumLocales
        /\ \A e \in Products : Cardinality(DOMAIN e.output_files) = 3 * NumLocales
        /\ (NumProducts = 2 /\ ~config.localize) => metrics.total_variants_produced = 6
        /\ (NumProducts = 2 /\ config.localize /\ brief.locals = <<S_es, S_pt_dash_BR>>)
               => metrics.total_variants_produced = 18

C7_Witness ==
    /\ pc = "done" /\ NumProducts = 2 /\ NumLocales = 3
    /\ metrics.total_variants_produced = 18
    /\ \A e \in Products : Cardinality(DOMAIN e.output_files) = 9

\* the key and the path the convention gives a ratio and a resolved locale
\* (resolved locales are normalized: lower case, "_" for "-")
ConventionKey(ratio, locale) == IF locale = S_en THEN ratio ELSE ratio \o <<"_">> \o locale
ConventionPath(product_id, ratio, locale) ==
    <<config.output_root, brief.campaign_id, product_id, ratio,
      IF locale = S_en THEN <<"f","i","n","a","l",".","p","n","g">>
      ELSE <<"f","i","n","a","l","_">> \o locale \o <<".","p","n","g">> >>
Combinations == Range(TARGET_VARIANTS) \X Range(locales_to_render)
FollowsConvention(e) ==
    \A k \in DOMAIN e.output_files :
        \E c \in Combinations :
            /\ k = ConventionKey(c[1], c[2])
            /\ e.output_files[k] = ConventionPath(e.product_id, c[1], c[2])

\* C8: every completed ratio x locale combination of a product is recorded in
\* output_files under "{ratio}" for English and "{ratio}_{normalized_locale}"
\* otherwise, with path output_root/campaign_id/product_id/ratio/
\* final[_{normalized_locale}].png; distinct combinations share neither key nor
\* path; with a brand policy the compliance map has the key set of output_files.
C8_OutputKeysAndPaths ==
    HasEntry =>
        /\ FollowsConvention(entry)
        /\ Cardinality({entry.output_files[k] : k \in DOMAIN entry.output_files})
               = Cardinality(DOMAIN entry.output_files)
        /\ Cardinality(DOMAIN entry.output_files) = counters.variants_produced
        /\ \A e \in Products :
               /\ FollowsConvention(e)
               /\ Cardinality(DOMAIN e.output_files) = Cardinality(Combinations)
               /\ Cardinality({e.output_files[k] : k \in DOMAIN e.output_files}) = Cardinality(Combinations)
               /\ DOMAIN e.compliance = IF brand_policy.present THEN DOMAIN e.output_files ELSE {}
        /\ DOMAIN entry.compliance =
               IF ~brand_policy.present THEN {}
               ELSE DOMAIN entry.output_files
                        \cup (IF pc = "write" \/ RaisedBy("brand") THEN {CurrentKey} ELSE {})

C8_Witness ==
    /\ pc = "done" /\ brand_policy.present /\ NumLocales = 3
    /\ \E e \in Products :
           /\ e.product_id = S_p2
           /\ <<"1","6","x","9","_","p","t","_","b","r">> \in DOMAIN e.output_files
           /\ e.output_files[<<"1","6","x","9","_","p","t","_","b","r">>] =
                  <<S_output, S_demo, S_p2, <<"1","6","x","9">>,
                    <<"f","i","n","a","l","_","p","t","_","b","r",".","p","n","g">> >>
           /\ <<"1","x","1">> \in DOMAIN e.output_files
           /\ DOMAIN e.compliance = DOMAIN e.output_files

ConventionLegalKey(locale) ==
    <<"m","e","s","s","a","g","e","_">> \o locale

C10_ErrorCarriesViolations ==
    (pc = "raised" /\ exception.type = "ComplianceViolationError") =>
        Len(exception.violations) > 0

-----------------------------------------------------------------------------
(* Further claims about the legal evaluator, checked under SpecLegal *)

\* the locale of the call, lowercased and with "_" for "-"
LegalNormalizedLocale == Lower(ReplaceChar(legal_call.value.locale, "-", "_"))

\* the primary subtags of the normalized locale: what precedes its first "_"
LegalPrimarySubtags ==
    { SubSeq(LegalNormalizedLocale, 1, k - 1) :
        k \in { j \in 1..Len(LegalNormalizedLocale) :
                  /\ LegalNormalizedLocale[j] = "_"
                  /\ \A h \in 1..(j - 1) : LegalNormalizedLocale[h] # "_" } }

\* the overrides the rule set is extended with: at most one
LegalMatchingOverrides ==
    LET overrides == legal_call.value.policy.locale_overrides
    IN  IF LegalNormalizedLocale \in DOMAIN overrides
        THEN {overrides[LegalNormalizedLocale]}
        ELSE {overrides[p] : p \in LegalPrimarySubtags \cap DOMAIN overrides}

LegalEffectiveChecks == checks_for_locale(legal_call.value.policy, legal_call.value.locale)

LegalEffectiveChecksAsStated ==
    LET global == legal_call.value.policy.checks
        effective == LegalEffectiveChecks
    IN  /\ Cardinality(LegalMatchingOverrides) <= 1
        /\ LegalMatchingOverrides = {} =>
               /\ effective.blocked_keywords = global.blocked_keywords
               /\ effective.blocked_regex = global.blocked_regex
        /\ \A o \in LegalMatchingOverrides :
               /\ effective.blocked_keywords = global.blocked_keywords \o o.blocked_keywords
               /\ effective.blocked_regex = global.blocked_regex \o o.blocked_regex
        /\ (LegalNormalizedLocale = S_es_mx /\ S_es_mx \notin DOMAIN legal_call.value.policy.locale_overrides
              /\ S_es \in DOMAIN legal_call.value.policy.locale_overrides)
               => LegalMatchingOverrides = {legal_call.value.policy.locale_overrides[S_es]}

\* C11: the effective rule set of a locale is the policy's global keywords and
\* patterns, extended with the override under the normalized locale key if
\* there is one, otherwise with the override under the primary subtag if there
\* is one (es-MX inherits es when no es_mx override exists), otherwise
\* with nothing; and the evaluation leaves the policy object as it was.
C11_EffectiveRulesAndPolicyUntouched ==
    /\ [](legal_call.set => LegalEffectiveChecksAsStated)
    /\ [][legal_call.set => legal_call'.value.policy = legal_call.value.policy]_vars

C11_Witness ==
    /\ legal_result.returned
    /\ legal_call.value.locale = S_es_dash_MX
    /\ DOMAIN legal_call.value.policy.locale_overrides = {S_es}
    /\ legal_call.value.policy.checks.blocked_keywords = << <<"a","b">> >>
    /\ LegalEffectiveChecks.blocked_keywords = << <<"a","b">>, <<"b","b">> >>
    /\ legal_call.value.text = <<"b","b">>
    /\ legal_result.flagged

\* ---------------------------------------------------------------------------
\* resolve_product_assets on its own (assets/resolver.py): products with and
\* without an explicit image filename, over asset folders holding any subset
\* of the files the resolver looks for
\* ---------------------------------------------------------------------------
S_hero_png ==
    <<"h","e","r","o",".","p","n","g">>

\* ProductBrief.image: not given, given as the empty string, or a filename
ResolverImages == {NoValue, Some(<<>>), Some(S_hero_png)}
ResolverLogos == {NoValue, Some(S_Brand_PNG)}

ResolverProduct(id, name, image, logo) ==
    [id |-> id, name |-> name, prompt |-> NoValue, image |-> image, logo |-> logo]

ResolverBriefs ==
    {[products |-> <<ResolverProduct(S_p1, S_One, i1, lg), ResolverProduct(S_p2, S_Two, i2, NoValue)>>] :
        i1 \in ResolverImages, i2 \in ResolverImages, lg \in ResolverLogos}

ConventionalHeroFiles(id) == {S_product_png, S_product_ \o id \o S_dot_png}

ResolverFiles ==
    UNION {{<<S_assets, id, f>> : f \in ConventionalHeroFiles(id) \cup {S_hero_png}} : id \in {S_p1, S_p2}}
        \cup {<<S_assets, S_p1, S_logo_png>>}

InitResolver ==
    /\ \E b \in ResolverBriefs, fs \in SUBSET ResolverFiles :
           fn_call = Some([fn |-> "resolve_product_assets", assets_root |-> S_assets,
                           brief |-> b, fs |-> fs])
    /\ fn_result = NoResult
    /\ IdleLegal /\ IdleBrand /\ IdleStore /\ IdleInputs /\ IdleRun

ResolveAssets ==
    /\ fn_call.set /\ fn_call.value.fn = "resolve_product_assets" /\ ~fn_result.returned
    /\ fn_result' = [returned |-> TRUE,
                     value |-> resolve_product_assets(fn_call.value.assets_root,
                                                      fn_call.value.brief, fn_call.value.fs),
                     again |-> NoValue]
    /\ UNCHANGED <<fn_call, legal_vars, brand_vars, store_vars, input_vars, run_vars>>

\* a second resolution of the same brief against the files the first one left
ResolveAssetsAgain ==
    /\ fn_call.set /\ fn_call.value.fn = "resolve_product_assets"
    /\ fn_result.returned /\ ~fn_result.again.set
    /\ fn_result' = [fn_result EXCEPT
                         !.again = Some(resolve_product_assets(fn_call.value.assets_root,
                                                               fn_call.value.brief, fn_call.value.fs))]
    /\ UNCHANGED <<fn_call, legal_vars, brand_vars, store_vars, input_vars, run_vars>>

NextResolver == ResolveAssets \/ ResolveAssetsAgain

SpecResolver == InitResolver /\ [][NextResolver]_vars

ResolverReturned ==
    fn_call.set /\ fn_call.value.fn = "resolve_product_assets" /\ fn_result.returned

\* the files of the product's asset folder, by name
FilesOfProduct(e) ==
    {path[3] : path \in {q \in fn_call.value.fs : q[1] = e.product_dir[1] /\ q[2] = e.product_dir[2]}}

HasConventionalHero(e) == FilesOfProduct(e) \cap ConventionalHeroFiles(e.product.id) # {}

NamesImage(e) == e.product.image.set /\ e.product.image.value # <<>>

HasNamedHero(e) == NamesImage(e) /\ e.product.image.value \in FilesOfProduct(e)

\* C12: for every product of the brief, whether or not it names an image
\* file, the resolver answers hero_source "reused" when product.png or
\* product_{id}.png exists in the product's asset folder, and "generated"
\* with no hero path when the folder holds no hero file at all.
C12_ConventionalHeroIsReused ==
    ResolverReturned =>
        \A k \in 1..Len(fn_result.value) :
            LET e == fn_result.value[k]
            IN  /\ HasConventionalHero(e) => e.hero_source = "reused"
                /\ (~HasConventionalHero(e) /\ ~HasNamedHero(e)) =>
                       (e.hero_source = "generated" /\ ~e.hero_path.set)

\* ---------------------------------------------------------------------------
\* The size of a ratio variant (imaging/variants.py, pipeline.py 94-145)
\* An image is modelled by its size <<width, height>>; the pixels play no part
\* in the sizes computed here.
\* ---------------------------------------------------------------------------
Max2(a, b) == IF a >= b THEN a ELSE b

\* Python's round(n / d) for integers n >= 0, d > 0: to the nearest integer,
\* a tie to the even one
Round(n, d) ==
    LET q == n \div d
        rem2 == 2 * (n % d)
    IN  IF rem2 < d THEN q
        ELSE IF rem2 > d THEN q + 1
        ELSE IF q % 2 = 0 THEN q ELSE q + 1

\* TARGET_VARIANTS[ratio_key]
TargetSizeOf(ratio_key) ==
    CASE ratio_key = TARGET_VARIANTS[1] -> <<1080, 1080>>
      [] ratio_key = TARGET_VARIANTS[2] -> <<1080, 1920>>
      [] ratio_key = TARGET_VARIANTS[3] -> <<1920, 1080>>

\* ImageOps.fit(image, size): the centred crop box of the target's aspect is
\* resized to size; ImageOps.pad(image, size): the image resized to fit is
\* pasted on a new image of size. Both results have the size asked for.
ImageOps_fit(image_size, size) == size
ImageOps_pad(image_size, size) == size

create_variant(base_image, ratio_key, preserve_full_image) ==
    IF preserve_full_image
    THEN ImageOps_pad(base_image, TargetSizeOf(ratio_key))
    ELSE ImageOps_fit(base_image, TargetSizeOf(ratio_key))

target_size_from_product_Fixed(product_size, ratio_key) == TargetSizeOf(ratio_key)

target_size_from_product(product_size, ratio_key) ==
    CASE ratio_key = TARGET_VARIANTS[1] ->
             <<Max2(product_size[1], product_size[2]), Max2(product_size[1], product_size[2])>>
      [] ratio_key = TARGET_VARIANTS[2] ->
             <<product_size[1], Max2(1, Round(product_size[1] * 16, 9))>>
      [] ratio_key = TARGET_VARIANTS[3] ->
             <<Max2(1, Round(product_size[2] * 16, 9)), product_size[2]>>

\* image.crop(box): an image of the box's size
CropSize(left, top, right, bottom) == <<right - left, bottom - top>>

CoverCrop(resized_width, resized_height, target_size) ==
    CropSize((resized_width - target_size[1]) \div 2,
             (resized_height - target_size[2]) \div 2,
             ((resized_width - target_size[1]) \div 2) + target_size[1],
             ((resized_height - target_size[2]) \div 2) + target_size[2])

\* scale = max(target_width / src_width, target_height / src_height), kept as
\* the fraction it is
cover_and_center_crop(image_size, target_size) ==
    IF target_size[1] * image_size[2] >= target_size[2] * image_size[1]
    THEN CoverCrop(Max2(target_size[1], Round(image_size[1] * target_size[1], image_size[1])),
                   Max2(target_size[2], Round(image_size[2] * target_size[1], image_size[1])),
                   target_size)
    ELSE CoverCrop(Max2(target_size[1], Round(image_size[1] * target_size[2], image_size[2])),
                   Max2(target_size[2], Round(image_size[2] * target_size[2], image_size[2])),
                   target_size)

\* the canvas of _compose_reused_variant: the cropped background, or a new
\* white image of the target size
ReusedCanvas(background, target_size) ==
    IF background.set THEN cover_and_center_crop(background.value, target_size) ELSE target_size

\* where the product image is pasted on the canvas
ProductDest(product_size, target_size) ==
    <<(target_size[1] - product_size[1]) \div 2, (target_size[2] - product_size[2]) \div 2>>

\* canvas.alpha_composite(product, dest) leaves the canvas size as it is. With
\* a negative coordinate in dest it raises ValueError in the Pillow releases
\* that require a non-negative destination and pastes the visible part in the
\* others: both outcomes are kept.
compose_reused_variant(product_size, background, ratio_key) ==
    LET target_size == target_size_from_product(product_size, ratio_key)
        dest == ProductDest(product_size, target_size)
    IN  {[raised |-> FALSE, size |-> ReusedCanvas(background, target_size)]}
            \cup (IF dest[1] < 0 \/ dest[2] < 0 THEN {[raised |-> TRUE]} ELSE {})

\* the ratio_variant of _process_product (pipeline.py 251-257)
RatioVariants(hero_source, image_size, background, ratio_key) ==
    IF hero_source = "reused"
    THEN compose_reused_variant(image_size, background, ratio_key)
    ELSE {[raised |-> FALSE, size |-> create_variant(image_size, ratio_key, FALSE)]}

\* overlay_campaign_message and overlay_logo return an image of the size of
\* the one they are given (text_overlay.py 167-168, 222; logo_overlay.py 12-26)
OverlaidSize(image_size) == image_size

\* widths and heights of the input images
ImageDims == {1, 9, 300, 500, 1080, 1920, 2048}
ImageSizes == ImageDims \X ImageDims
BackgroundSizes == {<<9, 300>>, <<1920, 1080>>, <<500, 500>>}

InitVariant ==
    /\ \E hs \in {"reused", "generated"}, sz \in ImageSizes, k \in 1..Len(TARGET_VARIANTS),
          bg \in {NoValue} \cup {Some(b) : b \in BackgroundSizes} :
           /\ hs = "generated" => bg = NoValue
           /\ fn_call = Some([fn |-> "ratio_variant", hero_source |-> hs, image_size |-> sz,
                              background |-> bg, ratio_key |-> TARGET_VARIANTS[k]])
    /\ fn_result = NoResult
    /\ IdleLegal /\ IdleBrand /\ IdleStore /\ IdleInputs /\ IdleRun

MakeVariant ==
    /\ fn_call.set /\ fn_call.value.fn = "ratio_variant" /\ ~fn_result.returned
    /\ \E v \in RatioVariants(fn_call.value.hero_source, fn_call.value.image_size,
                              fn_call.value.background, fn_call.value.ratio_key) :
           fn_result' = IF v.raised
                        THEN [returned |-> FALSE, raised |-> "ValueError"]
                        ELSE [returned |-> TRUE, value |-> OverlaidSize(v.size)]
    /\ UNCHANGED <<fn_call, legal_vars, brand_vars, store_vars, input_vars, run_vars>>

NextVariant == MakeVariant

SpecVariant == InitVariant /\ [][NextVariant]_vars

VariantMade == fn_call.set /\ fn_call.value.fn = "ratio_variant" /\ fn_result.returned

\* the statement as made: every variant has the fixed size of its ratio key
C13_AsStated ==
    VariantMade => fn_result.value = TargetSizeOf(fn_call.value.ratio_key)

\* a / b is c / 1 rounded to the nearest integer
IsNearest(c, a, b) == 2 * (IF b * c >= a THEN b * c - a ELSE a - b * c) <= b

\* C13: a variant made from a generated base image has exactly the fixed size
\* of its ratio key (1x1: 1080x1080, 9x16: 1080x1920, 16x9: 1920x1080),
\* whatever the size of the base image. A variant composed from a reused
\* product image has a size derived from the product image instead: square of
\* the larger side for 1x1, the product's width and 16/9 of it as height for
\* 9x16, the product's height and 16/9 of it as width for 16x9, with or
\* without a background image.
C13_VariantSize ==
    VariantMade =>
        LET size == fn_result.value
            product == fn_call.value.image_size
            ratio_key == fn_call.value.ratio_key
        IN  /\ fn_call.value.hero_source = "generated" => size = TargetSizeOf(ratio_key)
            /\ fn_call.value.hero_source = "reused" =>
                   /\ ratio_key = TARGET_VARIANTS[1] =>
                          /\ size[1] = size[2] /\ size[1] \in {product[1], product[2]}
                          /\ size[1] >= product[1] /\ size[1] >= product[2]
                   /\ ratio_key = TARGET_VARIANTS[2] =>
                          /\ size[1] = product[1] /\ size[2] >= 1
                          /\ IsNearest(size[2], 16 * product[1], 9) \/ size[2] = 1
                   /\ ratio_key = TARGET_VARIANTS[3] =>
                          /\ size[2] = product[2] /\ size[1] >= 1
                          /\ IsNearest(size[1], 16 * product[2], 9) \/ size[1] = 1

C13_Witness ==
    /\ VariantMade
    /\ fn_call.value.hero_source = "reused"
    /\ fn_call.value.image_size = <<500, 300>>
    /\ fn_call.value.background = Some(<<1920, 1080>>)
    /\ fn_call.value.ratio_key = TARGET_VARIANTS[2]
    /\ fn_result.value = <<500, 889>>

\* ---------------------------------------------------------------------------
\* Fitting the message into the panel (imaging/text_overlay.py 69-157)
\* A font is a size and the metrics of its face; the metrics give the advance
\* of a glyph and the height of a line in tenths of the size, rounded down to
\* whole pixels.
\* ---------------------------------------------------------------------------
MIN_MESSAGE_FONT_SIZE_PX == 24

\* int(x * 0.45) and int(x * 0.35) for the integers met here (the float
\* products truncate to these values for x below 180)
TimesRatio45(x) == (x * 45) \div 100
TimesRatio35(x) == (x * 35) \div 100

RegularFace == [narrow |-> 3, wide |-> 9, space |-> 3, line |-> 11]
TallFace    == [narrow |-> 2, wide |-> 5, space |-> 2, line |-> 14]
FontFaces == {RegularFace, TallFace}

\* _pick_font(font_size, preferred_fonts): the face found, at the size asked
pick_font(font_size, face) == [size |-> font_size, face |-> face]

GlyphUnits(c, face) ==
    IF c = "W" THEN face.wide ELSE IF IsSpace(c) THEN face.space ELSE face.narrow

RECURSIVE AdvanceSum(_, _, _)
AdvanceSum(text, k, font) ==
    IF k > Len(text) THEN 0
    ELSE ((font.size * GlyphUnits(text[k], font.face)) \div 10) + AdvanceSum(text, k + 1, font)

\* bbox[2] - bbox[0] of draw.textbbox((0, 0), text, font=font)
TextWidth(text, font) == AdvanceSum(text, 1, font)

\* _line_height: the height of "Ag" in the font
line_height(font) == (font.size * font.face.line) \div 10

\* str.split(): the maximal runs of non-space characters
RECURSIVE SplitFrom(_, _, _, _)
SplitFrom(text, k, words, current) ==
    IF k > Len(text)
    THEN IF current = <<>> THEN words ELSE Append(words, current)
    ELSE IF IsSpace(text[k])
         THEN SplitFrom(text, k + 1, IF current = <<>> THEN words ELSE Append(words, current), <<>>)
         ELSE SplitFrom(text, k + 1, words, Append(current, text[k]))

Split(text) == SplitFrom(text, 1, <<>>, <<>>)

\* split_oversized_word: chunks of the word, each as long as fits the width
\* and at least one character long
RECURSIVE SplitChunks(_, _, _, _, _, _)
SplitChunks(word, k, chunks, current, font, max_width) ==
    IF k > Len(word)
    THEN IF current # <<>> THEN Append(chunks, current) ELSE chunks
    ELSE IF TextWidth(Append(current, word[k]), font) <= max_width \/ current = <<>>
         THEN SplitChunks(word, k + 1, chunks, Append(current, word[k]), font, max_width)
         ELSE SplitChunks(word, k + 1, Append(chunks, current), <<word[k]>>, font, max_width)

split_oversized_word(word, font, max_width) == SplitChunks(word, 1, <<>>, <<>>, font, max_width)

RECURSIVE WrapWords_Replacing(_, _, _, _, _, _)
WrapWords_Replacing(words, k, lines, current_line, font, max_width) ==
    IF k > Len(words)
    THEN IF current_line # <<>> THEN Append(lines, Join(<<" ">>, current_line)) ELSE lines
    ELSE IF TextWidth(Strip(Join(<<" ">>, Append(current_line, words[k]))), font) <= max_width
         THEN WrapWords_Replacing(words, k + 1, lines, Append(current_line, words[k]), font, max_width)
         ELSE IF current_line = <<>>
              THEN WrapWords_Replacing(words, k + 1, split_oversized_word(words[k], font, max_width),
                                       current_line, font, max_width)
              ELSE WrapWords_Replacing(words, k + 1, Append(lines, Join(<<" ">>, current_line)),
                                       <<words[k]>>, font, max_width)

\* the loop of _wrap_text over the words, and what follows it
RECURSIVE WrapWords(_, _, _, _, _, _)
WrapWords(words, k, lines, current_line, font, max_width) ==
    IF k > Len(words)
    THEN IF current_line # <<>> THEN Append(lines, Join(<<" ">>, current_line)) ELSE lines
    ELSE IF TextWidth(Strip(Join(<<" ">>, Append(current_line, words[k]))), font) <= max_width
         THEN WrapWords(words, k + 1, lines, Append(current_line, words[k]), font, max_width)
         ELSE IF current_line = <<>>
              THEN WrapWords(words, k + 1, lines \o split_oversized_word(words[k], font, max_width),
                             current_line, font, max_width)
              ELSE WrapWords(words, k + 1, Append(lines, Join(<<" ">>, current_line)),
                             <<words[k]>>, font, max_width)

wrap_text(text, font, max_width) ==
    IF max_width <= 0
    THEN IF text # <<>> THEN <<text>> ELSE <<>>
    ELSE WrapWords(Split(text), 1, <<>>, <<>>, font, max_width)

wrapped_text_total_height(lh, line_count) ==
    IF line_count <= 0 THEN 0
    ELSE lh * line_count + Max2(0, line_count - 1) * TimesRatio35(lh)

\* what one pass of the search keeps of a candidate size
FontAttempt(font, message, max_text_width) ==
    [font |-> font, lines |-> wrap_text(message, font, max_text_width), line_height |-> line_height(font)]

Fits_Always(attempt, max_text_height) == TRUE

Fits(attempt, max_text_height) ==
    wrapped_text_total_height(attempt.line_height, Len(attempt.lines)) <= max_text_height

\* the while loop of _choose_fitting_font
RECURSIVE FontSearch(_, _, _, _, _, _, _)
FontSearchStep(low, high, best, attempt, message, face, max_text_width, max_text_height) ==
    IF Fits(attempt, max_text_height)
    THEN FontSearch(attempt.font.size + 1, high, attempt, message, face, max_text_width, max_text_height)
    ELSE FontSearch(low, attempt.font.size - 1, best, message, face, max_text_width, max_text_height)

FontSearch(low, high, best, message, face, max_text_width, max_text_height) ==
    IF low <= high
    THEN FontSearchStep(low, high, best,
                        FontAttempt(pick_font((low + high) \div 2, face), message, max_text_width),
                        message, face, max_text_width, max_text_height)
    ELSE best

MaxCandidate(max_text_height) == Max2(MIN_MESSAGE_FONT_SIZE_PX, TimesRatio45(max_text_height))

choose_fitting_font(message, face, max_text_width, max_text_height) ==
    FontSearch(MIN_MESSAGE_FONT_SIZE_PX, MaxCandidate(max_text_height),
               FontAttempt(pick_font(MIN_MESSAGE_FONT_SIZE_PX, face), message, max_text_width),
               message, face, max_text_width, max_text_height)

\* the messages: up to MaxWords words, and the words a longer message adds
MaxWords == 3
FontWords == {<<"i">>, <<"W", "i">>, <<"W", "W", "i", "W">>}
FontMessages == {Join(<<" ">>, ws) : ws \in SeqsUpTo(FontWords, MaxWords)}
FontExtensions == {<<" ">> \o w : w \in FontWords} \cup {<<" ", "i", " ", " ", "W", "W", "i", "W">>}
TextWidths == {0, 30, 90, 400}
TextHeights == {1, 40, 90, 140, 250}

InitFont ==
    /\ \E msg \in FontMessages, ext \in FontExtensions, face \in FontFaces,
          w \in TextWidths, h \in TextHeights :
           fn_call = Some([fn |-> "choose_fitting_font", message |-> msg, more |-> ext, face |-> face,
                           max_text_width |-> w, max_text_height |-> h])
    /\ fn_result = NoResult
    /\ IdleLegal /\ IdleBrand /\ IdleStore /\ IdleInputs /\ IdleRun

\* _choose_fitting_font for the message
ChooseFont ==
    /\ fn_call.set /\ fn_call.value.fn = "choose_fitting_font" /\ ~fn_result.returned
    /\ fn_result' = [returned |-> TRUE,
                     value |-> choose_fitting_font(fn_call.value.message, fn_call.value.face,
                                                   fn_call.value.max_text_width,
                                                   fn_call.value.max_text_height),
                     longer |-> NoValue]
    /\ UNCHANGED <<fn_call, legal_vars, brand_vars, store_vars, input_vars, run_vars>>

\* _choose_fitting_font for the message with the further words, same panel and face
ChooseFontLonger ==
    /\ fn_call.set /\ fn_call.value.fn = "choose_fitting_font"
    /\ fn_result.returned /\ ~fn_result.longer.set
    /\ fn_result' = [fn_result EXCEPT
                        !.longer = Some(choose_fitting_font(fn_call.value.message \o fn_call.value.more,
                                                            fn_call.value.face,
                                                            fn_call.value.max_text_width,
                                                            fn_call.value.max_text_height))]
    /\ UNCHANGED <<fn_call, legal_vars, brand_vars, store_vars, input_vars, run_vars>>

NextFont == ChooseFont \/ ChooseFontLonger

SpecFont == InitFont /\ [][NextFont]_vars

FontChosen == fn_call.set /\ fn_call.value.fn = "choose_fitting_font" /\ fn_result.returned

\* lineHeight x lineCount plus (lineCount - 1) gaps of 0.35 x lineHeight, the
\* gap in whole pixels as it is drawn
WrappedHeight(lh, line_count) ==
    IF line_count = 0 THEN 0 ELSE lh * line_count + (line_count - 1) * ((lh * 35) \div 100)

MinimumSizeOverflows ==
    /\ FontChosen
    /\ fn_call.value.max_text_height = 40
    /\ fn_result.value.font.size = 24
    /\ Len(fn_result.value.lines) = 3
    /\ WrappedHeight(fn_result.value.line_height, Len(fn_result.value.lines)) > 40

LongerChosen == FontChosen /\ fn_result.longer.set

\* C15: for the same text width, text height and font face, the size chosen
\* for a message extended with further words is at most the size chosen for
\* the message itself.
C15_LongerMessageNoLargerFont ==
    LongerChosen => fn_result.longer.value.font.size <= fn_result.value.font.size

\* the further words cost the message a smaller size, above the minimum
C15_Witness ==
    /\ LongerChosen
    /\ Split(fn_call.value.message \o fn_call.value.more) =
           Split(fn_call.value.message) \o Split(fn_call.value.more)
    /\ Len(Split(fn_call.value.more)) = 2
    /\ fn_result.longer.value.font.size < fn_result.value.font.size
    /\ fn_result.longer.value.font.size > 24

\* ---------------------------------------------------------------------------
\* GeneratedImageStore and its S3 mirror (storage/generated_store.py,
\* storage/s3_mirror.py)
\* A local file is [product_id, image_id, mtime, content] and an object of the
\* bucket [product_id, image_id, content], for the key
\* generated/{product_id}/{image_id}.png; content is the number of the save
\* that produced the image. A call of the boto3 client either succeeds or
\* raises; which, is not the store's to choose.
\* ---------------------------------------------------------------------------
MaxSaves == 2

\* the seconds the clock shows
ClockValues == {0, 1}

\* the characters of the keys, in code point order
IdChars == <<"0","1","2","3","4","5","6","7","8","9","T","_","a","b","c","d","e","f","p">>
CodePoint(c) == CHOOSE k \in 1..Len(IdChars) : IdChars[k] = c

\* a < b for Python strings
StrLess(a, b) ==
    \/ Len(a) < Len(b) /\ SubSeq(b, 1, Len(a)) = a
    \/ \E k \in 1..(IF Len(a) < Len(b) THEN Len(a) ELSE Len(b)) :
           /\ SubSeq(a, 1, k - 1) = SubSeq(b, 1, k - 1)
           /\ CodePoint(a[k]) < CodePoint(b[k])

\* datetime.now(UTC).strftime('%Y%m%dT%H%M%S'), the clock counting the seconds
\* of one minute
S_stamp_minute ==
    <<"2","0","2","5","0","1","0","1","T","0","0","0","0">>
TimeStamp(clock) == S_stamp_minute \o <<Digits[(clock \div 10) + 1], Digits[(clock % 10) + 1]>>

\* uuid4().hex[:8]: eight hexadecimal digits nobody chooses
UuidPrefixes == { <<"0","a","0","a","0","a","0","a">>, <<"f","3","f","3","f","3","f","3">> }

\* f"{timestamp}_{uuid}"
MakeImageId(clock, uuid) == TimeStamp(clock) \o <<"_">> \o uuid

StoreProducts == {S_p1, S_p2}

SameKey(a, b) == a.product_id = b.product_id /\ a.image_id = b.image_id

\* writing a file replaces the file of that path, if there is one
WriteFile(files_, file) == {f \in files_ : ~SameKey(f, file)} \cup {file}
PutObject(bkt, object) == {o \in bkt : ~SameKey(o, object)} \cup {object}

\* the modification time of a file written now: later than that of every file there is
NextMtime(files_) ==
    IF files_ = {} THEN 1
    ELSE 1 + (CHOOSE m \in {f.mtime : f \in files_} : \A f \in files_ : f.mtime <= m)

\* sorted(keys): generated/{product_id}/{image_id}.png in string order
KeyLess(a, b) ==
    \/ StrLess(a.product_id, b.product_id)
    \/ a.product_id = b.product_id /\ StrLess(a.image_id, b.image_id)

SortedKeys(objects) ==
    CHOOSE seq \in [1..Cardinality(objects) -> objects] :
        \A j, k \in 1..Cardinality(objects) : j < k => KeyLess(seq[j], seq[k])

\* S3Mirror.upload_file: an exception of the client is logged, not raised
upload_file_Propagates(bkt, object, client_fails) ==
    [raised |-> client_fails, bucket |-> IF client_fails THEN bkt ELSE PutObject(bkt, object)]

upload_file(bkt, object, client_fails) ==
    [raised |-> FALSE, bucket |-> IF client_fails THEN bkt ELSE PutObject(bkt, object)]

\* S3Mirror.download_file: False on any exception, a missing key included
download_file(bkt, product_id, image_id, client_fails) ==
    IF ~client_fails /\ \E o \in bkt : o.product_id = product_id /\ o.image_id = image_id
    THEN [raised |-> FALSE, value |-> TRUE,
          object |-> CHOOSE o \in bkt : o.product_id = product_id /\ o.image_id = image_id]
    ELSE [raised |-> FALSE, value |-> FALSE]

\* S3Mirror.list_keys(prefix): the keys under the prefix, sorted; [] on an exception
list_keys(objects, client_fails) ==
    [raised |-> FALSE, value |-> IF client_fails THEN <<>> ELSE SortedKeys(objects)]

\* S3Mirror.list_generated_for_product: the identifiers of the product's keys
list_generated_for_product(bkt, product_id, client_fails) ==
    LET keys == list_keys({o \in bkt : o.product_id = product_id}, client_fails).value
    IN  [k \in 1..Len(keys) |-> keys[k].image_id]

\* S3Mirror.find_generated_image_key: the first key that ends in /{image_id}.png
find_generated_image_key(bkt, image_id, client_fails) ==
    LET keys == list_keys(bkt, client_fails).value
        hits == {k \in 1..Len(keys) : keys[k].image_id = image_id}
    IN  IF hits = {} THEN NoValue ELSE Some(keys[CHOOSE k \in hits : \A j \in hits : k <= j])

StoreReturn(value, files_, bkt) ==
    [returned |-> TRUE, raised |-> FALSE, value |-> value, generated |-> files_, bucket |-> bkt]
StoreRaise(files_, bkt) ==
    [returned |-> FALSE, raised |-> TRUE, generated |-> files_, bucket |-> bkt]

\* GeneratedImageStore.save_new
AfterUpload(up, image_id, files_) ==
    IF up.raised THEN StoreRaise(files_, up.bucket)
    ELSE StoreReturn(image_id, files_, up.bucket)

GeneratedImageStore_save_new(files_, bkt, has_s3, product_id, content, clock, uuid, mtime, upload_fails) ==
    LET image_id == MakeImageId(clock, uuid)
        file == [product_id |-> product_id, image_id |-> image_id, mtime |-> mtime, content |-> content]
    IN  IF has_s3
        THEN AfterUpload(upload_file(bkt, [product_id |-> product_id, image_id |-> image_id,
                                            content |-> content], upload_fails),
                         image_id, WriteFile(files_, file))
        ELSE StoreReturn(image_id, WriteFile(files_, file), bkt)

\* the file or object found, as (identifier, image)
Loaded(x) == Some([image_id |-> x.image_id, content |-> x.content])

AfterDownload(dl, product_id, files_, bkt, mtime) ==
    IF dl.value
    THEN StoreReturn(Loaded(dl.object),
                     WriteFile(files_, [product_id |-> product_id, image_id |-> dl.object.image_id,
                                        mtime |-> mtime, content |-> dl.object.content]),
                     bkt)
    ELSE StoreReturn(NoValue, files_, bkt)

MirrorLast(image_ids, files_, bkt, product_id, mtime, download_fails) ==
    IF image_ids # <<>>
    THEN AfterDownload(download_file(bkt, product_id, image_ids[Len(image_ids)], download_fails),
                       product_id, files_, bkt, mtime)
    ELSE StoreReturn(NoValue, files_, bkt)

\* GeneratedImageStore.load_last_for_product
GeneratedImageStore_load_last_for_product(files_, bkt, has_s3, product_id, mtime, list_fails, download_fails) ==
    LET candidates == {f \in files_ : f.product_id = product_id}
    IN  IF candidates # {}
        THEN StoreReturn(Loaded(CHOOSE f \in candidates : \A g \in candidates : g.mtime <= f.mtime),
                         files_, bkt)
        ELSE IF has_s3
        THEN MirrorLast(list_generated_for_product(bkt, product_id, list_fails),
                        files_, bkt, product_id, mtime, download_fails)
        ELSE StoreReturn(NoValue, files_, bkt)

MirrorById(s3_key, files_, bkt, mtime, download_fails) ==
    IF s3_key.set
    THEN AfterDownload(download_file(bkt, s3_key.value.product_id, s3_key.value.image_id, download_fails),
                       s3_key.value.product_id, files_, bkt, mtime)
    ELSE StoreReturn(NoValue, files_, bkt)

\* GeneratedImageStore.load_by_id: rglob yields the matching files in an
\* order the file system chooses; found is the one it yields first
GeneratedImageStore_load_by_id(files_, bkt, has_s3, image_id, found, mtime, list_fails, download_fails) ==
    IF found.set
    THEN StoreReturn(Loaded(found.value), files_, bkt)
    ELSE IF has_s3
    THEN MirrorById(find_generated_image_key(bkt, image_id, list_fails), files_, bkt, mtime, download_fails)
    ELSE StoreReturn(NoValue, files_, bkt)

\* the files rglob can yield first for the identifier
FoundById(files_, image_id) ==
    IF \E f \in files_ : f.image_id = image_id
    THEN {Some(f) : f \in {g \in files_ : g.image_id = image_id}}
    ELSE {NoValue}

AllImageIds == {MakeImageId(c, u) : c \in ClockValues, u \in UuidPrefixes}

InitStore ==
    /\ generated = {} /\ bucket = {} /\ now = 0 /\ history = <<>>
    /\ s3 \in BOOLEAN
    /\ IdleFn /\ IdleLegal /\ IdleBrand /\ IdleInputs /\ IdleRun

\* the call made and what it did to the store, the bucket and the caller
ApplyStore(call, out) ==
    /\ fn_call' = Some(call)
    /\ fn_result' = IF out.raised THEN [returned |-> FALSE, raised |-> TRUE]
                    ELSE [returned |-> TRUE, raised |-> FALSE, value |-> out.value]
    /\ generated' = out.generated
    /\ bucket' = out.bucket

SaveNew ==
    /\ Len(history) < MaxSaves
    /\ \E product_id \in StoreProducts, uuid \in UuidPrefixes, upload_fails \in BOOLEAN :
           /\ ~s3 => ~upload_fails
           /\ ApplyStore([fn |-> "save_new", product_id |-> product_id, uuid |-> uuid,
                          content |-> Len(history) + 1, clock |-> now, mtime |-> NextMtime(generated),
                          upload_fails |-> upload_fails],
                         GeneratedImageStore_save_new(generated, bucket, s3, product_id, Len(history) + 1,
                                                      now, uuid, NextMtime(generated), upload_fails))
           /\ history' = Append(history, [product_id |-> product_id, image_id |-> MakeImageId(now, uuid),
                                          clock |-> now])
    /\ UNCHANGED <<s3, now, legal_vars, brand_vars, input_vars, run_vars>>

\* the calls of the client a lookup makes: the listing when there is a mirror
\* and no local file, the download when the listing names an object
ListsLast(product_id) == s3 /\ ~\E f \in generated : f.product_id = product_id
ListsById(image_id) == s3 /\ ~\E f \in generated : f.image_id = image_id

LoadLast ==
    /\ \E product_id \in StoreProducts, list_fails \in BOOLEAN, download_fails \in BOOLEAN :
           /\ list_fails => ListsLast(product_id)
           /\ download_fails => /\ ListsLast(product_id) /\ ~list_fails
                                 /\ \E o \in bucket : o.product_id = product_id
           /\ ApplyStore([fn |-> "load_last_for_product", product_id |-> product_id,
                          mtime |-> NextMtime(generated),
                          list_fails |-> list_fails, download_fails |-> download_fails],
                         GeneratedImageStore_load_last_for_product(generated, bucket, s3, product_id,
                                                                   NextMtime(generated),
                                                                   list_fails, download_fails))
    /\ UNCHANGED <<s3, now, history, legal_vars, brand_vars, input_vars, run_vars>>

LoadById ==
    /\ \E image_id \in AllImageIds, list_fails \in BOOLEAN, download_fails \in BOOLEAN :
       \E found \in FoundById(generated, image_id) :
           /\ list_fails => ListsById(image_id)
           /\ download_fails => /\ ListsById(image_id) /\ ~list_fails
                                 /\ \E o \in bucket : o.image_id = image_id
           /\ ApplyStore([fn |-> "load_by_id", image_id |-> image_id, found |-> found,
                          mtime |-> NextMtime(generated),
                          list_fails |-> list_fails, download_fails |-> download_fails],
                         GeneratedImageStore_load_by_id(generated, bucket, s3, image_id, found,
                                                        NextMtime(generated), list_fails, download_fails))
    /\ UNCHANGED <<s3, now, history, legal_vars, brand_vars, input_vars, run_vars>>

\* a second passes
Tick ==
    /\ now + 1 \in ClockValues
    /\ now' = now + 1
    /\ fn_call' = NoValue /\ fn_result' = NoResult
    /\ UNCHANGED <<generated, s3, bucket, history, legal_vars, brand_vars, input_vars, run_vars>>

\* the store is used from a machine whose storage_root is empty
LoseLocal ==
    /\ generated # {}
    /\ generated' = {}
    /\ fn_call' = NoValue /\ fn_result' = NoResult
    /\ UNCHANGED <<s3, bucket, now, history, legal_vars, brand_vars, input_vars, run_vars>>

NextStore == SaveNew \/ LoadLast \/ LoadById \/ Tick \/ LoseLocal

SpecStore == InitStore /\ [][NextStore]_vars

StoreStep(fn) == fn_call'.set /\ fn_call'.value.fn = fn

\* what the call of this step does to a store that has no mirror
SaveNewWithoutMirror ==
    GeneratedImageStore_save_new(generated, bucket, FALSE, fn_call'.value.product_id,
                                 fn_call'.value.content, fn_call'.value.clock, fn_call'.value.uuid,
                                 fn_call'.value.mtime, FALSE)
LoadLastWithoutMirror ==
    GeneratedImageStore_load_last_for_product(generated, bucket, FALSE, fn_call'.value.product_id,
                                              fn_call'.value.mtime, FALSE, FALSE)
LoadByIdWithoutMirror ==
    GeneratedImageStore_load_by_id(generated, bucket, FALSE, fn_call'.value.image_id,
                                   fn_call'.value.found, fn_call'.value.mtime, FALSE, FALSE)

SameAsWithout(out) ==
    /\ fn_result'.returned /\ fn_result'.value = out.value
    /\ generated' = out.generated

\* save_new keeps the image locally and returns its identifier, whatever the upload did
SaveNewPersists ==
    StoreStep("save_new") =>
        /\ fn_result'.returned
        /\ fn_result'.value = MakeImageId(fn_call'.value.clock, fn_call'.value.uuid)
        /\ [product_id |-> fn_call'.value.product_id, image_id |-> fn_result'.value,
            mtime |-> fn_call'.value.mtime, content |-> fn_call'.value.content] \in generated'

\* a lookup whose listing or download fails finds nothing and stores nothing
FailedLookupIsNotFound ==
    /\ (StoreStep("load_last_for_product") /\ (fn_call'.value.list_fails \/ fn_call'.value.download_fails)) =>
           (fn_result'.returned /\ fn_result'.value = NoValue /\ generated' = generated)
    /\ (StoreStep("load_by_id") /\ (fn_call'.value.list_fails \/ fn_call'.value.download_fails)) =>
           (fn_result'.returned /\ fn_result'.value = NoValue /\ generated' = generated)

\* with the mirror failing, the caller and the local files get what they get without a mirror
FailingMirrorIsNoMirror ==
    /\ (StoreStep("save_new") /\ fn_call'.value.upload_fails) => SameAsWithout(SaveNewWithoutMirror)
    /\ (StoreStep("load_last_for_product") /\ (fn_call'.value.list_fails \/ fn_call'.value.download_fails)) =>
           SameAsWithout(LoadLastWithoutMirror)
    /\ (StoreStep("load_by_id") /\ (fn_call'.value.list_fails \/ fn_call'.value.download_fails)) =>
           SameAsWithout(LoadByIdWithoutMirror)

\* C16: no failure of an upload, a download or a listing of the mirror is
\* raised to the caller of the store. A generated image whose upload fails is
\* kept locally and save_new returns its identifier and path; a lookup whose
\* listing or download fails answers not found; and the caller and the local
\* files end up as they do with no mirror configured.
C16_MirrorFailuresAreSwallowed ==
    /\ [](fn_call.set => (fn_result.returned /\ ~fn_result.raised))
    /\ [][SaveNewPersists /\ FailedLookupIsNotFound /\ FailingMirrorIsNoMirror]_vars

\* of two saves one reached the bucket and one did not; on a machine without
\* local files the download of the mirrored one fails and the lookup finds nothing
C16_Witness ==
    /\ s3 /\ Len(history) = 2 /\ Cardinality(bucket) = 1 /\ generated = {}
    /\ fn_call.set /\ fn_call.value.fn = "load_last_for_product"
    /\ fn_call.value.download_fails
    /\ \E o \in bucket : o.product_id = fn_call.value.product_id
    /\ fn_result.returned /\ fn_result.value = NoValue

\* the identifiers of the product's saves, and the one that sorts last
IdsOfProduct(product_id) ==
    {history[k].image_id : k \in {j \in 1..Len(history) : history[j].product_id = product_id}}
LexicallyLast(ids) == CHOOSE x \in ids : \A y \in ids : y = x \/ StrLess(y, x)
LastSaveOf(product_id) ==
    history[CHOOSE k \in 1..Len(history) :
                /\ history[k].product_id = product_id
                /\ \A j \in 1..Len(history) : history[j].product_id = product_id => j <= k]

\* C17: the identifiers sort lexically in the order in which they were made,
\* so no identifier is made twice and no stored file is overwritten, and the
\* identifier of a product that sorts last is the one of its latest save.
C17_IdsSortChronologically ==
    /\ \A j, k \in 1..Len(history) : j < k => StrLess(history[j].image_id, history[k].image_id)
    /\ \A product_id \in StoreProducts :
           IdsOfProduct(product_id) # {} =>
               LexicallyLast(IdsOfProduct(product_id)) = LastSaveOf(product_id).image_id

\* ---------------------------------------------------------------------------
\* Dry runs of run_pipeline
\* ---------------------------------------------------------------------------
IsImagePath(path) ==
    LET name == path[Len(path)]
    IN  Len(name) >= 4 /\ SubSeq(name, Len(name) - 3, Len(name)) = <<".","p","n","g">>

\* every ratio x locale combination of the product has its key and would-be path
RecordsEveryCombination(e) ==
    \A c \in Combinations :
        /\ ConventionKey(c[1], normalize_locale(c[2])) \in DOMAIN e.output_files
        /\ e.output_files[ConventionKey(c[1], normalize_locale(c[2]))] =
               ConventionPath(e.product_id, c[1], normalize_locale(c[2]))

MaxLocales == 2

S_es_padded ==
    <<" ","e","s"," ">>
LocalePool == {S_en, S_EN_dash_us, S_es, S_ES_upper, S_es_padded, S_es_dash_MX, S_es_mx, S_fr, S_pt_dash_BR}
CliLocales == {NoValue, Some(<<>>)} \cup {Some(x) : x \in LocalePool}

InitLocales ==
    /\ \E enable \in BOOLEAN, brief_locales \in SeqsUpTo(LocalePool, MaxLocales), cli \in CliLocales :
           fn_call = Some([fn |-> "resolve_output_locales", enable_localization |-> enable,
                           brief_locales |-> brief_locales, cli_locale |-> cli])
    /\ fn_result = NoResult
    /\ IdleLegal /\ IdleBrand /\ IdleStore /\ IdleInputs /\ IdleRun

ResolveLocales ==
    /\ fn_call.set /\ fn_call.value.fn = "resolve_output_locales" /\ ~fn_result.returned
    /\ fn_result' = [returned |-> TRUE,
                     value |-> resolve_output_locales(fn_call.value.enable_localization,
                                                      fn_call.value.brief_locales,
                                                      fn_call.value.cli_locale)]
    /\ UNCHANGED <<fn_call, legal_vars, brand_vars, store_vars, input_vars, run_vars>>

NextLocales == ResolveLocales

SpecLocales == InitLocales /\ [][NextLocales]_vars

LocalesResolved == fn_call.set /\ fn_call.value.fn = "resolve_output_locales" /\ fn_result.returned

\* the locales asked for, in the order given: English, the brief's, the CLI's
RequestedLocales ==
    <<S_en>> \o fn_call.value.brief_locales
        \o (IF fn_call.value.cli_locale.set /\ fn_call.value.cli_locale.value # <<>>
            THEN <<fn_call.value.cli_locale.value>> ELSE <<>>)

\* lowercased, hyphens to underscores, every en / en_* variant to en
CanonicalLocale(locale) ==
    LET n == Lower(ReplaceChar(Strip(locale), "-", "_"))
    IN  IF n = S_en \/ (Len(n) >= 3 /\ SubSeq(n, 1, 3) = <<"e","n","_">>) THEN S_en ELSE n

FirstRequested(canonical) ==
    CHOOSE k \in 1..Len(RequestedLocales) :
        /\ CanonicalLocale(RequestedLocales[k]) = canonical
        /\ \A j \in 1..(k - 1) : CanonicalLocale(RequestedLocales[j]) # canonical

\* C19: resolve_output_locales returns a list that starts with "en", holds
\* each canonical locale once (lowercased, hyphens to underscores, every
\* en / en_* variant as "en") and keeps the order of first occurrence of the
\* brief's locales followed by the CLI locale; with localization disabled it
\* returns exactly <<"en">>.
C19_ResolvedLocales ==
    LocalesResolved =>
        LET result == fn_result.value
        IN  /\ Len(result) >= 1 /\ result[1] = S_en
            /\ \A j, k \in 1..Len(result) : j # k => result[j] # result[k]
            /\ ~fn_call.value.enable_localization => result = <<S_en>>
            /\ fn_call.value.enable_localization =>
                   /\ Range(result) = {CanonicalLocale(x) : x \in Range(RequestedLocales)}
                   /\ \A j, k \in 1..Len(result) :
                          j < k => FirstRequested(result[j]) < FirstRequested(result[k])

C19_Witness ==
    /\ LocalesResolved
    /\ fn_call.value.enable_localization
    /\ fn_call.value.brief_locales = <<S_EN_dash_us, S_es_dash_MX>>
    /\ fn_call.value.cli_locale = Some(S_es_mx)
    /\ fn_result.value = <<S_en, S_es_mx>>

\* ---------------------------------------------------------------------------
\* The order of the combinations within a run
\* ---------------------------------------------------------------------------
RatioOrder == << <<"1","x","1">>, <<"9","x","1","6">>, <<"1","6","x","9">> >>

\* the (ratio, locale) positions that come before position (rr, ll): ratio
\* outer, locale inner
Before(rr, ll) ==
    {c \in (1..Len(RatioOrder)) \X (1..NumLocales) : c[1] < rr \/ (c[1] = rr /\ c[2] < ll)}

KeysBefore(rr, ll) == {ConventionKey(RatioOrder[c[1]], locales_to_render[c[2]]) : c \in Before(rr, ll)}

\* the product at position i of the brief is at work on (rr, ll): everything
\* before it is written and counted, nothing else is
AtCombination(rr, ll) ==
    /\ entry.product_id = brief.products[i].id
    /\ Len(manifest.products) = i - 1
    /\ metrics.total_variants_produced = (i - 1) * Len(RatioOrder) * NumLocales
    /\ DOMAIN entry.output_files = KeysBefore(rr, ll)
    /\ counters.variants_produced = Cardinality(Before(rr, ll))
    /\ ~config.dry_run => \A k \in KeysBefore(rr, ll) : entry.output_files[k] \in files

\* C20: the combinations of a run are processed in one order: the products in
\* the order of the brief; within a product the ratios 1x1, 9x16, 16x9; within
\* a ratio the locales in resolved order, English first. Whenever a step of a
\* combination is taken, every combination before it has been written and
\* counted and no later one has been touched; the manifest lists the products
\* in the order of the brief.
C20_FixedNestedOrder ==
    Started =>
        /\ locales_to_render[1] = S_en
        /\ \A k \in 1..Len(manifest.products) : manifest.products[k].product_id = brief.products[k].id
        /\ pc = "compose" => AtCombination(r, 1)
        /\ pc \in {"message_legal", "brand", "write"} =>
               /\ AtCombination(r, l)
               /\ RatioKey = RatioOrder[r]
        /\ pc = "next_ratio" => AtCombination(r + 1, 1)
        /\ pc = "product_done" => AtCombination(Len(RatioOrder) + 1, 1)
        /\ pc = "done" => Len(manifest.products) = NumProducts

\* the second product is at its fifth combination of nine
C20_Witness ==
    /\ pc = "write" /\ i = 2 /\ r = 2 /\ l = 2 /\ NumLocales = 3
    /\ Len(manifest.products) = 1
    /\ Cardinality(DOMAIN entry.output_files) = 4
    /\ RatioKey = <<"9","x","1","6">> /\ LocaleCode = S_es

-----------------------------------------------------------------------------
(* SpecLegalOnly: run_legal_validation_only on the bounded inputs *)

ConfigurationError ==
    [set |-> TRUE, type |-> "ConfigurationError", violations |-> <<>>, raised_by |-> "legal_only"]

\* the runs explored: assets, store and brand policy play no part in the
\* validation-only run
LegalOnlyScenarios ==
    { s \in Scenarios : s.layout = 1 /\ s.store = 1 /\ s.brand = 1 /\ ~s.dry_run }

\* the ResolvedProductAssets the validation-only run builds for a product
LegalOnlyResolved(product) ==
    [product |-> product, product_dir |-> <<".">>, hero_path |-> NoValue, logo_path |-> NoValue,
     background_path |-> NoValue, hero_source |-> "generated"]

\* a slip that raises as soon as a check is blocked, strict or not
LegalOnlyRaises_AnyBlock(strict_legal, checks_blocked) == checks_blocked > 0
\* pipeline.py line 513: config.strict_legal and checks_blocked > 0
LegalOnlyRaises(strict_legal, checks_blocked) == strict_legal /\ checks_blocked > 0

\* the variables the validation-only run never touches
legal_only_rest ==
    <<legal_vars, brand_vars, fn_vars, generated, s3, bucket, now, input_vars, resolved_assets,
      store, saves, files, provider_calls, r, base_source, counters, metrics>>

\* history is the log of the calls the run makes: every evaluate_legal_text
\* and every localizer.translate, in order
EvaluateCall(product_id, subject, locale, result) ==
    [op |-> "evaluate_legal_text", product_id |-> product_id, subject |-> subject,
     locale |-> locale, should_block |-> result.should_block, flagged |-> result.flagged]
TranslateCall(product_id, locale) ==
    [op |-> "translate", product_id |-> product_id, subject |-> "message",
     locale |-> locale, should_block |-> FALSE, flagged |-> FALSE]

Counted(result) ==
    [totals EXCEPT !.checks_executed = @ + 1,
                   !.checks_flagged = IF result.flagged THEN @ + 1 ELSE @,
                   !.checks_blocked = IF result.should_block THEN @ + 1 ELSE @]

\* lines 439-448: the brief, the policy (or ConfigurationError), the localizer
\* and the locales
LegalOnlyStart ==
    /\ pc = "lo_start"
    /\ IF ~legal_policy.present
       THEN /\ exception' = ConfigurationError
            /\ pc' = "raised"
            /\ UNCHANGED <<locales_to_render, totals, manifest, i>>
       ELSE /\ locales_to_render' = resolve_output_locales(config.localize, brief.locals, config.locale)
            /\ totals' = [checks_executed |-> 0, checks_flagged |-> 0, checks_blocked |-> 0]
            /\ manifest' = [products |-> <<>>]
            /\ i' = 1
            /\ pc' = IF Len(brief.products) >= 1 THEN "lo_prompt" ELSE "lo_finish"
            /\ UNCHANGED exception
    /\ UNCHANGED <<legal_only_rest, history, l, entry>>

AfterLegalOnlyPrompt(product, prompt_result) ==
    /\ totals' = Counted(prompt_result)
    /\ history' = Append(history, EvaluateCall(product.id, "prompt", S_en, prompt_result))
    /\ entry' = Some([product_id |-> product.id, prompt |-> prompt_result, messages |-> EmptyDict])

\* lines 456-477: the legal check of the product's generation prompt
LegalOnlyPrompt ==
    /\ pc = "lo_prompt"
    /\ AfterLegalOnlyPrompt(brief.products[i],
           evaluate_legal_text(build_generation_prompt(brief, LegalOnlyResolved(brief.products[i])),
                               S_en, legal_policy, config.strict_legal))
    /\ l' = 1
    /\ pc' = IF Len(locales_to_render) >= 1 THEN "lo_message" ELSE "lo_product_done"
    /\ UNCHANGED <<legal_only_rest, locales_to_render, manifest, i, exception>>

AfterLegalOnlyMessage(product, locale_code, message_result) ==
    /\ totals' = Counted(message_result)
    /\ history' = history
                  \o (IF locale_code = S_en THEN <<>> ELSE <<TranslateCall(product.id, locale_code)>>)
                  \o <<EvaluateCall(product.id, "message", locale_code, message_result)>>
    /\ entry' = Some([entry.value EXCEPT !.messages = DictSet(@, locale_code, message_result)])

\* lines 479-494: the message of one locale, translated and legal-checked
LegalOnlyMessage ==
    /\ pc = "lo_message"
    /\ AfterLegalOnlyMessage(brief.products[i], LocaleCode,
           evaluate_legal_text(LocalizedMessage, LocaleCode, legal_policy, config.strict_legal))
    /\ l' = l + 1
    /\ pc' = IF l < Len(locales_to_render) THEN "lo_message" ELSE "lo_product_done"
    /\ UNCHANGED <<legal_only_rest, locales_to_render, manifest, i, exception>>

\* lines 496-502: the product's record joins the list
LegalOnlyAppend ==
    /\ pc = "lo_product_done"
    /\ manifest' = [manifest EXCEPT !.products = Append(@, entry.value)]
    /\ i' = i + 1
    /\ pc' = IF i < Len(brief.products) THEN "lo_prompt" ELSE "lo_finish"
    /\ UNCHANGED <<legal_only_rest, locales_to_render, history, totals, entry, l, exception>>

\* lines 504-517: the summary, raised as ComplianceViolationError or returned
LegalOnlyFinish ==
    /\ pc = "lo_finish"
    /\ IF LegalOnlyRaises(config.strict_legal, totals.checks_blocked)
       THEN /\ exception' = ComplianceViolationError(NoValue, "legal_only")
            /\ pc' = "raised"
            /\ UNCHANGED manifest
       ELSE /\ manifest' = [campaign_id |-> brief.campaign_id, strict_legal |-> config.strict_legal,
                            locales_checked |-> locales_to_render,
                            checks_executed |-> totals.checks_executed,
                            checks_flagged |-> totals.checks_flagged,
                            checks_blocked |-> totals.checks_blocked,
                            products |-> manifest.products]
            /\ pc' = "lo_returned"
            /\ UNCHANGED exception
    /\ UNCHANGED <<legal_only_rest, locales_to_render, history, totals, entry, i, l>>

NextLegalOnly ==
    \/ LegalOnlyStart
    \/ LegalOnlyPrompt
    \/ LegalOnlyMessage
    \/ LegalOnlyAppend
    \/ LegalOnlyFinish

InitLegalOnly ==
    /\ scenario \in LegalOnlyScenarios
    /\ store = <<>>
    /\ resolved_assets = <<>> /\ locales_to_render = <<>>
    /\ saves = 0 /\ files = {} /\ provider_calls = 0
    /\ pc = "lo_start" /\ i = 0 /\ r = 0 /\ l = 0 /\ base_source = "none"
    /\ entry = NoValue /\ counters = NoValue /\ manifest = NoValue /\ metrics = NoValue
    /\ totals = NoValue /\ exception = NoException
    /\ IdleStore /\ IdleLegal /\ IdleBrand /\ IdleFn

SpecLegalOnly == InitLegalOnly /\ [][NextLegalOnly]_vars

LegalOnlyEnded == pc \in {"lo_returned", "raised"}
Evaluations == {k \in 1..Len(history) : history[k].op = "evaluate_legal_text"}
Translations == {k \in 1..Len(history) : history[k].op = "translate"}
BlockedChecks == {k \in Evaluations : history[k].should_block}
\* the checks the run owes: the prompt and every resolved locale's message,
\* for every product
ChecksOwed ==
    { <<brief.products[k].id, "prompt", S_en>> : k \in 1..NumProducts }
    \cup { <<brief.products[k].id, "message", locales_to_render[m]>> :
              k \in 1..NumProducts, m \in 1..NumLocales }
ChecksMade == { <<history[k].product_id, history[k].subject, history[k].locale>> : k \in Evaluations }

\* C21: run_legal_validation_only raises ConfigurationError before any legal
\* evaluation or translation when no legal policy is found; otherwise it
\* evaluates the prompt and every resolved locale's message for every
\* product without stopping at a blocked check, so that checks_executed is
\* products x (1 + locales); it writes no file; and it raises
\* ComplianceViolationError only after all checks and only when strict_legal
\* is on and at least one check was blocked, and returns the summary otherwise.
C21_ValidationOnlyRunsEveryCheck ==
    /\ files = {} /\ generated = {} /\ bucket = {}
    /\ (pc # "lo_start" /\ ~legal_policy.present)
           => pc = "raised" /\ exception = ConfigurationError /\ history = <<>>
    /\ (LegalOnlyEnded /\ legal_policy.present) =>
           /\ ChecksMade = ChecksOwed
           /\ Cardinality(Evaluations) = NumProducts * (1 + NumLocales)
           /\ totals.checks_executed = NumProducts * (1 + NumLocales)
           /\ totals.checks_blocked = Cardinality(BlockedChecks)
           /\ (pc = "raised") = (config.strict_legal /\ BlockedChecks # {})
           /\ pc = "raised" => exception.type = "ComplianceViolationError"
           /\ pc = "lo_returned" =>
                  /\ exception = NoException
                  /\ manifest.checks_executed = NumProducts * (1 + NumLocales)
                  /\ Len(manifest.products) = NumProducts

\* a strict run raised at the end although its first blocked check was not
\* its last check: the checks after it were still made
C21_Witness ==
    /\ pc = "raised" /\ exception.type = "ComplianceViolationError"
    /\ \E k \in BlockedChecks : \E m \in Evaluations : m > k
    /\ Translations # {}
    /\ Cardinality(Evaluations) = NumProducts * (1 + NumLocales)

-----------------------------------------------------------------------------
(* Claims about the generated-image directory, checked under Spec *)

\* the files under storage_root that the store holds: save_new writes
\* generated/<product_id>/<image_id>.png
StoredPaths ==
    { <<S_generated, store[k].product_id, store[k].image_id \o S_dot_png>> : k \in 1..Len(store) }
\* storage/generated/<kind>_<product_id>.png, directly in the directory
FlatAssetPath(kind, product_id) == <<S_generated, kind \o product_id \o S_dot_png>>
NoAssetsOnDisk == assets = {}

\* C22: after a run that is not a dry run over products with no assets on
\* disk, the store's generated directory directly contains
\* product_<id>.png, logo_<id>.png and background_<id>.png for every
\* product, and every product is listed in the manifest and counted in
\* total_products_processed.
C22_FlatAssetsGenerated ==
    (pc = "done" /\ ~config.dry_run /\ NoAssetsOnDisk) =>
        /\ \A k \in 1..NumProducts :
               {FlatAssetPath(S_product_, brief.products[k].id),
                FlatAssetPath(S_logo_, brief.products[k].id),
                FlatAssetPath(S_background_, brief.products[k].id)} \subseteq StoredPaths
        /\ Len(manifest.products) = NumProducts
        /\ metrics.total_products_processed = NumProducts

-----------------------------------------------------------------------------
(* Claims about invalid patterns, checked under SpecLegal *)

LegalEffectivePatterns ==
    checks_for_locale(legal_call.value.policy, legal_call.value.locale).blocked_regex
LegalHits == Range(legal_result.hits)
LegalLowered == Lower(normalize_for_matching(legal_call.value.text))
HitOf(kind, rule) == kind \o <<":">> \o rule
S_keyword == <<"k","e","y","w","o","r","d">>
S_regex == <<"r","e","g","e","x">>
S_regex_error == <<"r","e","g","e","x","_","e","r","r","o","r">>

\* C23: a blocked pattern that is not a valid regular expression never makes
\* evaluate_legal_text raise: the call returns, the pattern is recorded as
\* its own hit regex_error:<pattern>, which flags the text whatever the text
\* is, and every other keyword and pattern of the rule set is still
\* evaluated (its hit is recorded exactly when it matches).
C23_InvalidPatternIsAHit ==
    (legal_call.set /\ legal_result.returned) =>
        /\ \A k \in 1..Len(LegalEffectivePatterns) :
               LET pattern == LegalEffectivePatterns[k]
               IN  IF ~pattern.valid
                   THEN /\ HitOf(S_regex_error, pattern.text) \in LegalHits
                        /\ HitOf(S_regex, pattern.text) \notin LegalHits
                        /\ legal_result.flagged
                   ELSE /\ HitOf(S_regex, pattern.text) \in LegalHits
                            <=> Contains(LegalLowered, Lower(pattern.text))
                        /\ HitOf(S_regex_error, pattern.text) \notin LegalHits
        /\ \A keyword \in LegalEffectiveKeywords :
               HitOf(S_keyword, keyword) \in LegalHits <=> Contains(LegalLowered, Lower(keyword))

\* an invalid pattern was followed by a valid one that matched, on a text
\* that holds no blocked keyword
C23_Witness ==
    /\ legal_call.set /\ legal_result.returned
    /\ \E k \in 1..Len(LegalEffectivePatterns) : \E m \in 1..Len(LegalEffectivePatterns) :
           /\ k < m
           /\ ~LegalEffectivePatterns[k].valid
           /\ LegalEffectivePatterns[m].valid
           /\ HitOf(S_regex, LegalEffectivePatterns[m].text) \in LegalHits
    /\ Len(legal_result.hits) = 2

-----------------------------------------------------------------------------
(* Claims about repeated resolution, checked under SpecResolver *)

ResolvedTwice == ResolverReturned /\ fn_result.again.set

InBriefOrder(resolved) ==
    /\ Len(resolved) = Len(fn_call.value.brief.products)
    /\ \A k \in 1..Len(resolved) :
           /\ resolved[k].product = fn_call.value.brief.products[k]
           /\ resolved[k].product_dir = <<fn_call.value.assets_root, resolved[k].product.id>>

-----------------------------------------------------------------------------
(* Claims about the prompt's legal check, checked under Spec *)

\* the product is past its prompt check: a variant is being composed,
\* checked or written, or all of them are
Rendering == pc \in {"compose", "message_legal", "brand", "write", "next_ratio", "product_done"}

\* the message checks made so far for the product at work
MessageChecksMade ==
    CASE pc = "compose" -> Cardinality(Before(r, 1))
      [] pc = "message_legal" -> Cardinality(Before(r, l))
      [] pc \in {"brand", "write"} -> Cardinality(Before(r, l)) + 1
      [] pc = "next_ratio" -> Cardinality(Before(r + 1, 1))
      [] pc = "product_done" -> Cardinality(Before(Len(RatioOrder) + 1, 1))

\* the legal checks of the product that were not message checks
PromptChecksMade == counters.legal_checked - (IF legal_policy.present THEN MessageChecksMade ELSE 0)

NothingRendered ==
    /\ DOMAIN entry.output_files = {}
    /\ DOMAIN entry.compliance = {}
    /\ MessageKeys(entry) = {}
    /\ counters.variants_produced = 0

PromptCheckedOnceBeforeRendering ==
    /\ pc = "prompt_legal" => NothingRendered /\ counters.legal_checked = 0
    /\ (pc = "compose" /\ r = 1) =>
           /\ K_prompt \in DOMAIN entry.legal
           /\ entry.legal[K_prompt]
                  = evaluate_legal_text(Prompt, S_en, legal_policy, config.strict_legal)
    /\ Rendering =>
           /\ K_prompt \in DOMAIN entry.legal
           /\ ~entry.legal[K_prompt].should_block
           /\ PromptChecksMade = 1

BlockedPromptEndsTheRun ==
    /\ exception # NoException => pc = "raised"
    /\ RaisedBy("legal_prompt") =>
           /\ exception.type = "ComplianceViolationError"
           /\ entry.legal[K_prompt].should_block
           /\ entry.product_id = brief.products[i].id
           /\ NothingRendered
           /\ Len(manifest.products) = i - 1
           /\ metrics.total_products_processed = i - 1
    /\ (pc = "raised" /\ exception.raised_by # "legal_prompt" /\ legal_policy.present /\ entry # NoValue
            /\ entry.product_id = brief.products[i].id)
           => ~entry.legal[K_prompt].should_block

\* C25 as stated: for each product the prompt is legal-checked exactly once,
\* whatever the run's configuration.
C25_AsStated ==
    Started => PromptCheckedOnceBeforeRendering /\ BlockedPromptEndsTheRun

\* C25: when a legal policy is configured, for each product the generation
\* prompt is legal-checked exactly once, with locale en, before any ratio
\* variant of the product is composed, overlaid, brand-checked or written;
\* when that check should block, ComplianceViolationError is raised, none of
\* the product's variants is produced and no later product is processed.
C25_PromptCheckedOnceBeforeRendering ==
    (Started /\ legal_policy.present) =>
        PromptCheckedOnceBeforeRendering /\ BlockedPromptEndsTheRun

\* the second product's prompt was blocked after the first product was
\* rendered in full
C25_Witness ==
    /\ legal_policy.present
    /\ RaisedBy("legal_prompt")
    /\ i = 2
    /\ Len(manifest.products) = 1
    /\ manifest.products[1].legal[K_prompt].flagged = FALSE

-----------------------------------------------------------------------------
(* Claims about the generation modes *)

ProviderCallsOfStep == provider_calls' - provider_calls
StoreEntriesOfStep == Len(store') - Len(store)
SavedByStep == IF config.dry_run THEN 0 ELSE 1
StoredForProduct(product_id) == {k \in 1..Len(store) : store[k].product_id = product_id}
ConfiguredIdStored ==
    /\ config.generated_image_id.set /\ config.generated_image_id.value # <<>>
    /\ \E k \in 1..Len(store) : store[k].image_id = config.generated_image_id.value
StoreUntouched == store' = store /\ saves' = saves /\ bucket' = bucket

\* what the step that opens a product (pc = "begin") does with the provider
\* and the store, by mode; checked under Spec
GenerationModeDecisions ==
    [][pc = "begin" =>
          IF Resolved.hero_source = "reused"
          THEN ProviderCallsOfStep = 0 /\ StoreUntouched /\ entry'.hero_source = "reused"
          ELSE CASE config.generated_image_mode = "new" ->
                        /\ ProviderCallsOfStep = 1 /\ StoreEntriesOfStep = SavedByStep
                        /\ entry'.hero_source = "generated_new"
                 [] config.generated_image_mode = "last" ->
                        IF StoredForProduct(Resolved.product.id) # {}
                        THEN /\ ProviderCallsOfStep = 0 /\ StoreUntouched
                             /\ entry'.hero_source = "generated_last"
                        ELSE /\ ProviderCallsOfStep = 1 /\ StoreEntriesOfStep = SavedByStep
                             /\ entry'.hero_source = "generated_new"
                 [] config.generated_image_mode = "id" ->
                        /\ ProviderCallsOfStep = 0 /\ StoreUntouched
                        /\ IF ConfiguredIdStored
                           THEN entry'.hero_source = "generated_id" /\ pc' # "raised"
                           ELSE pc' = "raised" /\ exception'.type = "ValueError"]_vars

\* the images of the product that the store or its mirror holds, and the
\* save that made the latest of them
StoredIds(product_id) ==
    {x.image_id : x \in {y \in generated \cup bucket : y.product_id = product_id}}
MostRecentStored(product_id) ==
    LET held == {k \in 1..Len(history) :
                    history[k].product_id = product_id /\ history[k].image_id \in StoredIds(product_id)}
    IN  history[CHOOSE k \in held : \A j \in held : j <= k]

\* C26 (mode 'last'): the image that load_last_for_product hands to the run
\* is the most recent stored image of that product, and it is None only when
\* no image of the product is stored, in which case the run falls through
\* to generating a new one. Checked under SpecStore; the provider and save
\* decisions of the three modes are GenerationModeDecisions.
C26_LastModeUsesMostRecent ==
    (fn_call.set /\ fn_call.value.fn = "load_last_for_product" /\ fn_result.returned
        /\ ~fn_call.value.list_fails /\ ~fn_call.value.download_fails) =>
        IF StoredIds(fn_call.value.product_id) = {}
        THEN fn_result.value = NoValue
        ELSE /\ fn_result.value.set
             /\ fn_result.value.value.image_id = MostRecentStored(fn_call.value.product_id).image_id

-----------------------------------------------------------------------------
(* Claims about the wrapped lines, checked under SpecFont *)

ChosenLines == fn_result.value.lines
LineWidth(k) == TextWidth(ChosenLines[k], fn_result.value.font)

\* C27: for every message and every positive available width, every line
\* _wrap_text returns is no wider than the available width or is a single
\* character: words join the line while it stays within the width, and a
\* word wider than the width is split character by character wherever it
\* stands in the message.
C27_LinesFitOrSingleCharacter ==
    (FontChosen /\ fn_call.value.max_text_width > 0) =>
        \A k \in 1..Len(ChosenLines) :
            LineWidth(k) <= fn_call.value.max_text_width \/ Len(ChosenLines[k]) = 1

-----------------------------------------------------------------------------
(* SpecFontLoop: the while loop of _choose_fitting_font, one pass per step *)

\* font_size = (low + high) // 2
Midpoint(low, high) == (low + high) \div 2
\* a slip that steps over the size after the one that fitted
LowAfterFit_Skip(font_size) == font_size + 2
\* low = font_size + 1
LowAfterFit(font_size) == font_size + 1
\* high = font_size - 1
HighAfterMiss(font_size) == font_size - 1

\* the wrapped message at every candidate size: what the measurements of the
\* drawing context give, a function of the message, the face and the width
AttemptsOf(message, face, max_text_width, max_text_height) ==
    [size \in MIN_MESSAGE_FONT_SIZE_PX..MaxCandidate(max_text_height) |->
        FontAttempt(pick_font(size, face), message, max_text_width)]

InitFontLoop ==
    /\ \E msg \in FontMessages, face \in FontFaces, w \in TextWidths, h \in TextHeights :
           fn_call = Some([fn |-> "choose_fitting_font", message |-> msg, face |-> face,
                           max_text_width |-> w, max_text_height |-> h,
                           attempts |-> AttemptsOf(msg, face, w, h)])
    /\ fn_result = NoResult
    /\ IdleLegal /\ IdleBrand /\ IdleStore /\ IdleInputs /\ IdleRun

AttemptAt(size) == fn_call.value.attempts[size]

\* lines 133-140: the candidate range and the fallback at the minimum size
FontLoopEnter ==
    /\ fn_call.set /\ fn_result = NoResult
    /\ fn_result' = [returned |-> FALSE, in_loop |-> TRUE,
                     low |-> MIN_MESSAGE_FONT_SIZE_PX,
                     high |-> MaxCandidate(fn_call.value.max_text_height),
                     best |-> AttemptAt(MIN_MESSAGE_FONT_SIZE_PX)]
    /\ UNCHANGED <<fn_call, legal_vars, brand_vars, store_vars, input_vars, run_vars>>

AfterFontAttempt(attempt) ==
    fn_result' = IF Fits(attempt, fn_call.value.max_text_height)
                 THEN [fn_result EXCEPT !.best = attempt, !.low = LowAfterFit(attempt.font.size)]
                 ELSE [fn_result EXCEPT !.high = HighAfterMiss(attempt.font.size)]

\* lines 142-155: one pass of the loop
FontLoopPass ==
    /\ fn_call.set /\ fn_result # NoResult /\ fn_result.in_loop
    /\ fn_result.low <= fn_result.high
    /\ AfterFontAttempt(AttemptAt(Midpoint(fn_result.low, fn_result.high)))
    /\ UNCHANGED <<fn_call, legal_vars, brand_vars, store_vars, input_vars, run_vars>>

\* line 157: the loop is left and the best attempt returned
FontLoopReturn ==
    /\ fn_call.set /\ fn_result # NoResult /\ fn_result.in_loop
    /\ fn_result.low > fn_result.high
    /\ fn_result' = [fn_result EXCEPT !.returned = TRUE, !.in_loop = FALSE]
    /\ UNCHANGED <<fn_call, legal_vars, brand_vars, store_vars, input_vars, run_vars>>

NextFontLoop == FontLoopEnter \/ FontLoopPass \/ FontLoopReturn

\* the loop is sequential code: a pass that can be made is made
SpecFontLoop == InitFontLoop /\ [][NextFontLoop]_vars /\ WF_vars(NextFontLoop)

FontLoopReturned == fn_call.set /\ fn_result.returned
FitsAtSize(size) == Fits(AttemptAt(size), fn_call.value.max_text_height)
CandidateSizes == MIN_MESSAGE_FONT_SIZE_PX..MaxCandidate(fn_call.value.max_text_height)

\* the loop and the recursion FontSearch are the same search
FontLoopAgrees ==
    FontLoopReturned =>
        fn_result.best = choose_fitting_font(fn_call.value.message, fn_call.value.face,
                                             fn_call.value.max_text_width, fn_call.value.max_text_height)

LargestFittingSize ==
    FontLoopReturned =>
        /\ fn_result.best.font.size \in CandidateSizes
        /\ \A size \in CandidateSizes : size > fn_result.best.font.size => ~FitsAtSize(size)
        /\ (\E size \in CandidateSizes : FitsAtSize(size)) => FitsAtSize(fn_result.best.font.size)
        /\ fn_result.best = FontAttempt(fn_result.best.font, fn_call.value.message,
                                        fn_call.value.max_text_width)

-----------------------------------------------------------------------------
(* Claims about an aborted run, checked under Spec *)

ComplianceAbort == exception # NoException /\ exception.type = "ComplianceViolationError"
ProductsUpTo(n) == {brief.products[k].id : k \in 1..n}
SummaryPaths ==
    {ManifestPath(config.output_root, brief.campaign_id), MetricsPath(config.output_root, brief.campaign_id)}
SummaryKeys == {<<S_output_prefix>> \o Tail(path) : path \in SummaryPaths}

\* C29: when run_pipeline aborts with a compliance violation the exception
\* propagates: the run never reaches its return, so no manifest or metrics
\* is returned, neither manifest.json nor metrics.json is written, and no
\* product after the failing one is processed.
C29_AbortReturnsNothing ==
    /\ pc = "done" => exception = NoException
    /\ ComplianceAbort =>
           /\ pc = "raised"
           /\ files \cap SummaryPaths = {}
           /\ bucket \cap SummaryKeys = {}
           /\ manifest.brand_compliance_summary = NoValue /\ manifest.legal_compliance_summary = NoValue
           /\ entry.product_id = brief.products[i].id
           /\ Len(manifest.products) = i - 1
           /\ metrics.total_products_processed = i - 1
           /\ \A path \in files : path[3] \in ProductsUpTo(i)
           /\ \A k \in 1..Len(store) :
                  store[k].product_id \in ProductsUpTo(i) \/ store[k] \in Range(StoreSetups[scenario.store].store)

\* the run was aborted at its first product, after variants of it were
\* written, with a product still to come
C29_Witness ==
    /\ ComplianceAbort /\ pc = "raised"
    /\ i = 1 /\ NumProducts >= 2
    /\ files # {}


\* ---------------------------------------------------------------------------
\* The canvas of a reused product image (pipeline.py 94-111, 128-145)

\* _compose_reused_variant has been called and has ended, by a return or by
\* an exception
ReusedVariantCalled ==
    /\ fn_call.set /\ fn_call.value.fn = "ratio_variant"
    /\ fn_call.value.hero_source = "reused"
    /\ fn_result # NoResult

ReusedTarget == target_size_from_product(fn_call.value.image_size, fn_call.value.ratio_key)

\* C30: for every reused product image size and each of the three ratio keys,
\* the canvas computed by _target_size_from_product is at least as wide and as
\* tall as the product image, the centred paste offsets are not negative, and
\* a variant is produced. The code does not keep this: the 9x16 canvas takes
\* the product's width and gives it the height round(width * 16 / 9), which is
\* less than the height of a product taller than 16:9 (300 x 1080 gives a
\* canvas of 300 x 533 and a vertical offset of -274), and the 16x9 canvas
\* is narrower than a product wider than 16:9.
C30_CanvasHoldsProduct ==
    ReusedVariantCalled =>
        /\ ReusedTarget[1] >= fn_call.value.image_size[1]
        /\ ReusedTarget[2] >= fn_call.value.image_size[2]
        /\ ProductDest(fn_call.value.image_size, ReusedTarget)[1] >= 0
        /\ ProductDest(fn_call.value.image_size, ReusedTarget)[2] >= 0
        /\ fn_result.returned
====
